---- MODULE Spec2Model ----
(***************************************************************************)
(* A model of job-hunter: the suggestion-application engine (lib/review.ts:*)
(* path resolution over a JSON document, applySuggestion, applyByIds with  *)
(* its file-system steps), the HTTP server's accept and profile routes,    *)
(* the interactive review session, and the job search (lib/search.ts:      *)
(* matchesQuery, dedupe, search).                                          *)
(*                                                                         *)
(* The specifications share the variables:                                 *)
(*   SpecApply   one call of applySuggestion on a bounded input            *)
(*   SpecBatch   calls of applyByIds over the profile, backup, suggestions *)
(*               and changelog files, one file-system step per action      *)
(*   SpecTwice   applyByIds called again with the same arguments           *)
(*   SpecServer  POST /api/accept and PUT /api/profile, with crashes       *)
(*   SpecMatch   one call of matchesQuery on a bounded input               *)
(*   SpecDedupe  one call of dedupe on a bounded input                     *)
(*   SpecSearch  one search with its concurrently running adapters         *)
(*   SpecCache   successive searches and the search cache while time runs  *)
(*   SpecSearchFair  SpecSearch with the event loop resuming the search    *)
(*   SpecReview  one session of runInteractiveReview, key by key           *)
(*   SpecActors  two processes saving the profile through the same .tmp    *)
(***************************************************************************)
EXTENDS Integers, Sequences, FiniteSets, TLC

VARIABLES
    \* ---- one call of applySuggestion (SpecApply)
    doc,            \* the profile object passed to applySuggestion
    sug,            \* the suggestion passed: [section, type, suggested]
    out,            \* what the call left: [profile, raised]
    phase,          \* "input" before the call, "done" after it
    \* ---- the files (SpecBatch)
    profileFile,    \* content of data/profile.json
    tmpFile,        \* content of data/profile.json.tmp
    backupFile,     \* content of data/profile.backup.json
    suggestionsFile,\* content of <dir>/suggestions.json
    changelog,      \* content of <dir>/changelog.md
    \* ---- one call of applyByIds (SpecBatch)
    pc,             \* position of the call in the code of applyByIds
    ids,            \* the ids argument: "all" or a list of numbers
    data,           \* the local `data`
    profile,        \* the local `profile`
    toApply,        \* the local `toApply`
    skipped,        \* the local `skipped`
    backupCreated,  \* the local `backupCreated`
    i,              \* number of suggestions of toApply already handled
    result,         \* the value returned, or the error raised
    start,          \* the files as they were when the call started
    fsLog,          \* the file-system writes of the call, in order
    calls,          \* number of calls of applyByIds started so far
    \* ---- one request in the HTTP server (SpecServer)
    request,        \* the request being handled: its route and parsed body
    httpPc,         \* position of the handler in the code of handleRequest
    response,       \* the response sent: its status and payload
    \* ---- one call of matchesQuery or of dedupe (SpecMatch, SpecDedupe)
    query,          \* the query passed to matchesQuery
    title,          \* the title passed to matchesQuery
    extraText,      \* the extraText passed to matchesQuery
    score,          \* the number matchesQuery returned
    jobs,           \* the list passed to dedupe
    deduped,        \* the list dedupe returned
    \* ---- calls of search (SpecSearch, SpecCache)
    now,            \* the clock, in milliseconds
    cache,          \* the entries of the search cache
    searchPc,       \* position of the call in the code of search
    searchArgs,     \* the arguments of the call: query and opts
    adapters,       \* per source adapter: its state, responses and results
    settleOrder,    \* the sources in the order their promises settled
    returned,       \* what the call returned
    history,        \* the calls completed so far
    \* ---- one session of runInteractiveReview (SpecReview)
    actions,        \* the local `actions`: what was done with each suggestion
    changesApplied, \* the local `changesApplied`
    steps,          \* the suggestions the session applied, in order
    sessions,       \* number of sessions started so far
    \* ---- a second actor running applyByIds (SpecActors)
    fd,             \* what the running actor's open descriptor now names
    other           \* the locals of the actor that is not running

applyVars == <<doc, sug, out, phase>>
fileVars  == <<profileFile, tmpFile, backupFile, suggestionsFile, changelog>>
callVars  == <<pc, ids, data, profile, toApply, skipped, backupCreated, i, result,
               start, fsLog, calls>>
httpVars  == <<request, httpPc, response>>
fnVars    == <<query, title, extraText, score, jobs, deduped>>
searchVars == <<now, cache, searchPc, searchArgs, adapters, settleOrder, returned,
                history>>
reviewVars == <<actions, changesApplied, steps, sessions>>
actorVars == <<fd, other>>
procVars  == <<reviewVars, actorVars>>
extVars   == <<httpVars, fnVars, searchVars, procVars>>
vars      == <<applyVars, fileVars, callVars, extVars>>

(***************************************************************************)
(* JSON values as JavaScript holds them in memory.  Strings and property   *)
(* names are sequences of one-character strings.  An array carries its     *)
(* elements e and the named (non-index) properties x assigned to it; Undef *)
(* is `undefined`, which is also what reading an array hole gives.         *)
(***************************************************************************)
Null   == [t |-> "null"]
Undef  == [t |-> "undef"]
Str(s) == [t |-> "str", s |-> s]
Num(n) == [t |-> "num", n |-> n]
Obj(f) == [t |-> "obj", f |-> f]
Arr(e) == [t |-> "arr", e |-> e, x |-> <<>>]

IsNullish(v) == v.t \in {"null", "undef"}

Digits == <<"0", "1", "2", "3", "4", "5", "6", "7", "8", "9">>

IsDigit(c) == \E d \in 1..Len(Digits) : Digits[d] = c

DigitVal(c) == (CHOOSE d \in 1..Len(Digits) : Digits[d] = c) - 1

RECURSIVE DecVal(_)
\* parseInt of a sequence of digits
DecVal(s) ==
    IF s = <<>> THEN 0
    ELSE 10 * DecVal(SubSeq(s, 1, Len(s) - 1)) + DigitVal(s[Len(s)])

RECURSIVE ToDec(_)
\* String(n) for a number n >= 0
ToDec(n) ==
    IF n < 10 THEN <<Digits[n + 1]>>
    ELSE ToDec(n \div 10) \o <<Digits[(n % 10) + 1]>>

\* A property name that JavaScript treats as an array index: canonical decimal
IsArrayIndex(k) ==
    /\ k # <<>>
    /\ \A j \in 1..Len(k) : IsDigit(k[j])
    /\ (Len(k) = 1 \/ k[1] # "0")

(***************************************************************************)
(* resolvePath: the tokenizer /([^[.\]]+)|\[(\d+)\]/g and the walk.        *)
(* A part is Id(s), a property name, or Ix(n), a number.                   *)
(***************************************************************************)
Id(s) == [k |-> "id", s |-> s]
Ix(n) == [k |-> "ix", n |-> n]

IsNameChar(c) == c \notin {"[", ".", "]"}

RECURSIVE RunEnd(_, _, _)
\* last position of the longest run of characters satisfying the class, from p
RunEnd(path, p, digits) ==
    IF p + 1 <= Len(path)
       /\ (IF digits THEN IsDigit(path[p + 1]) ELSE IsNameChar(path[p + 1]))
    THEN RunEnd(path, p + 1, digits)
    ELSE p

RECURSIVE Tokens(_, _)
\* the matches of the regular expression from position p on, in order
Tokens(path, p) ==
    IF p > Len(path) THEN <<>>
    ELSE IF IsNameChar(path[p])
    THEN LET q == RunEnd(path, p, FALSE)
         IN  <<Id(SubSeq(path, p, q))>> \o Tokens(path, q + 1)
    ELSE IF path[p] = "[" /\ p + 1 <= Len(path) /\ IsDigit(path[p + 1])
    THEN LET q == RunEnd(path, p + 1, TRUE)
         IN  IF q + 1 <= Len(path) /\ path[q + 1] = "]"
             THEN <<Ix(DecVal(SubSeq(path, p + 1, q)))>> \o Tokens(path, q + 2)
             ELSE Tokens(path, p + 1)
    ELSE Tokens(path, p + 1)

ParsePath(path) == Tokens(path, 1)

\* the property name JavaScript uses for a part
PropKey(part) == IF part.k = "id" THEN part.s ELSE ToDec(part.n)

\* current[part] for a non-nullish current.  Only own properties are
\* modelled: the names of the model's paths are none of those an object,
\* array or string inherits (length, constructor, ...).
GetProp(v, part) ==
    LET k == PropKey(part) IN
    CASE v.t = "obj" -> IF k \in DOMAIN v.f THEN v.f[k] ELSE Undef
      [] v.t = "arr" ->
            IF IsArrayIndex(k)
            THEN IF DecVal(k) < Len(v.e) THEN v.e[DecVal(k) + 1] ELSE Undef
            ELSE IF k \in DOMAIN v.x THEN v.x[k] ELSE Undef
      [] v.t = "str" ->
            IF IsArrayIndex(k) /\ DecVal(k) < Len(v.s)
            THEN Str(<<v.s[DecVal(k) + 1]>>) ELSE Undef
      [] OTHER -> Undef

NoRes == [found |-> FALSE]

RECURSIVE WalkNoFinalCheck(_, _, _)
\* resolvePath without the check of `current` after the loop
WalkNoFinalCheck(current, parts, j) ==
    IF j < Len(parts) - 1
    THEN IF IsNullish(current) THEN NoRes
         ELSE WalkNoFinalCheck(GetProp(current, parts[j + 1]), parts, j + 1)
    ELSE [found |-> TRUE, parent |-> current, key |-> parts[Len(parts)],
          at |-> SubSeq(parts, 1, Len(parts) - 1)]

RECURSIVE Walk(_, _, _)
\* the for loop of resolvePath; j parts have been descended through
Walk(current, parts, j) ==
    IF j < Len(parts) - 1
    THEN IF IsNullish(current) THEN NoRes
         ELSE Walk(GetProp(current, parts[j + 1]), parts, j + 1)
    ELSE IF IsNullish(current) THEN NoRes
         ELSE [found |-> TRUE, parent |-> current, key |-> parts[Len(parts)],
               at |-> SubSeq(parts, 1, Len(parts) - 1)]

\* `at` is where the parent lives in obj: the parent is a reference into it
resolvePath(obj, path) ==
    LET parts == ParsePath(path)
    IN  IF Len(parts) = 0 THEN NoRes ELSE Walk(obj, parts, 0)

(***************************************************************************)
(* The three mutations applySuggestion performs through `parent`.  Each    *)
(* gives the parent after it and whether JavaScript raised a TypeError     *)
(* (review.ts is an ES module, so its code runs in strict mode: assigning  *)
(* a property of a primitive, or deleting a character of a string, throws).*)
(***************************************************************************)
Ok(v)     == [v |-> v, raised |-> FALSE]
Raised(v) == [v |-> v, raised |-> TRUE]

\* `delete parent[n]` on an array: the element becomes a hole, the length stays
SpliceLeavesHole(parent, n) ==
    IF n < Len(parent.e) THEN [parent EXCEPT !.e[n + 1] = Undef] ELSE parent

\* parent.splice(n, 1) on an array
Splice(parent, n) ==
    IF n < Len(parent.e)
    THEN [parent EXCEPT !.e = [j \in 1..(Len(parent.e) - 1) |->
                                  IF j <= n THEN parent.e[j] ELSE parent.e[j + 1]]]
    ELSE parent

\* delete parent[key]
DeleteProp(parent, key) ==
    LET k == PropKey(key) IN
    CASE parent.t = "obj" ->
            Ok([parent EXCEPT !.f = [kk \in (DOMAIN parent.f) \ {k} |-> parent.f[kk]]])
      [] parent.t = "arr" ->
            IF IsArrayIndex(k)
            THEN IF DecVal(k) < Len(parent.e)
                 THEN Ok([parent EXCEPT !.e[DecVal(k) + 1] = Undef])
                 ELSE Ok(parent)
            ELSE Ok([parent EXCEPT !.x = [kk \in (DOMAIN parent.x) \ {k} |-> parent.x[kk]]])
      [] parent.t = "str" ->
            IF IsArrayIndex(k) /\ DecVal(k) < Len(parent.s)
            THEN Raised(parent) ELSE Ok(parent)
      [] OTHER -> Ok(parent)

\* parent.push(val) on an array instead of the indexed assignment
SetPropPush(parent, key, val) ==
    CASE parent.t = "obj" ->
            Ok([parent EXCEPT !.f = [kk \in (DOMAIN parent.f) \cup {PropKey(key)} |->
                                        IF kk = PropKey(key) THEN val ELSE parent.f[kk]]])
      [] parent.t = "arr" -> Ok([parent EXCEPT !.e = Append(parent.e, val)])
      [] OTHER -> Raised(parent)

\* parent[key] = val
SetProp(parent, key, val) ==
    LET k == PropKey(key) IN
    CASE parent.t = "obj" ->
            Ok([parent EXCEPT !.f = [kk \in (DOMAIN parent.f) \cup {k} |->
                                        IF kk = k THEN val ELSE parent.f[kk]]])
      [] parent.t = "arr" ->
            IF IsArrayIndex(k)
            THEN Ok([parent EXCEPT !.e =
                        [j \in 1..(IF DecVal(k) < Len(parent.e)
                                   THEN Len(parent.e) ELSE DecVal(k) + 1) |->
                            IF j = DecVal(k) + 1 THEN val
                            ELSE IF j <= Len(parent.e) THEN parent.e[j]
                            ELSE Undef]])
            ELSE Ok([parent EXCEPT !.x = [kk \in (DOMAIN parent.x) \cup {k} |->
                                            IF kk = k THEN val ELSE parent.x[kk]]])
      [] OTHER -> Raised(parent)

RECURSIVE PutAt(_, _, _)
\* the document v once the container reached through the parts `at` is nv:
\* what a mutation through the reference `parent` does to the document
PutAt(v, at, nv) ==
    IF at = <<>> THEN nv
    ELSE LET k    == PropKey(at[1])
             rest == SubSeq(at, 2, Len(at))
         IN  CASE v.t = "obj" -> [v EXCEPT !.f[k] = PutAt(v.f[k], rest, nv)]
               [] v.t = "arr" ->
                     IF IsArrayIndex(k)
                     THEN [v EXCEPT !.e[DecVal(k) + 1] =
                                        PutAt(v.e[DecVal(k) + 1], rest, nv)]
                     ELSE [v EXCEPT !.x[k] = PutAt(v.x[k], rest, nv)]
               [] OTHER -> v

\* applySuggestion(suggestion, profile): the profile after the call and
\* whether the call raised
applySuggestion(suggestion, prof) ==
    LET resolved == resolvePath(prof, suggestion.section) IN
    IF ~resolved.found THEN [profile |-> prof, raised |-> FALSE]
    ELSE LET parent == resolved.parent
             key    == resolved.key
             m == IF suggestion.type = "remove"
                  THEN IF parent.t = "arr" /\ key.k = "ix"
                       THEN Ok(Splice(parent, key.n))
                       ELSE DeleteProp(parent, key)
                  ELSE SetProp(parent, key, Str(suggestion.suggested))
         IN  [profile |-> IF parent.t \in {"obj", "arr"}
                          THEN PutAt(prof, resolved.at, m.v) ELSE prof,
              raised  |-> m.raised]

(***************************************************************************)
(* SpecApply: one call of applySuggestion.  The document is one of three   *)
(* profiles, the section any concatenation of at most MaxPieces pieces of  *)
(* path text, so that well-formed, malformed and unresolvable paths all    *)
(* occur.                                                                  *)
(***************************************************************************)
MaxPieces == 4

Pieces == { <<"a">>, <<"b">>, <<"0">>, <<".">>, <<"[">>, <<"]">>,
            <<"[", "0", "]">>, <<"[", "1", "]">> }

RECURSIVE Concat(_)
Concat(ps) == IF ps = <<>> THEN <<>> ELSE ps[1] \o Concat(Tail(ps))

Paths == { Concat(ps) : ps \in UNION { [1..n -> Pieces] : n \in 0..MaxPieces } }

Types == {"rewrite", "restructure", "add", "remove"}

Suggested == <<"v">>

\* { a: "xy", b: [ { a: ["p", "q"], b: "r" }, "s" ] }
Doc1 == Obj(<<"a">> :> Str(<<"x", "y">>) @@
            <<"b">> :> Arr(<< Obj(<<"a">> :> Arr(<<Str(<<"p">>), Str(<<"q">>)>>) @@
                                  <<"b">> :> Str(<<"r">>)),
                              Str(<<"s">>) >>))

\* { a: { a: "u", b: null, "0": "w" }, b: [ ["p", "q"], 7 ], "0": ["k"] }
Doc2 == Obj(<<"a">> :> Obj(<<"a">> :> Str(<<"u">>) @@ <<"b">> :> Null @@
                           <<"0">> :> Str(<<"w">>)) @@
            <<"b">> :> Arr(<< Arr(<<Str(<<"p">>), Str(<<"q">>)>>), Num(7) >>) @@
            <<"0">> :> Arr(<<Str(<<"k">>)>>))

\* [ "m", { a: "n", b: ["p", "q", "r"] } ]
Doc3 == Arr(<< Str(<<"m">>),
               Obj(<<"a">> :> Str(<<"n">>) @@
                   <<"b">> :> Arr(<<Str(<<"p">>), Str(<<"q">>), Str(<<"r">>)>>)) >>)

Docs == {Doc1, Doc2, Doc3}

NoOut == [profile |-> Undef, raised |-> FALSE]

HttpIdle ==
    request = Undef /\ httpPc = "idle" /\ response = Undef

FnIdle ==
    /\ query = <<>> /\ title = <<>> /\ extraText = <<>> /\ score = 0
    /\ jobs = <<>> /\ deduped = <<>>

SearchIdle ==
    /\ now = 0 /\ cache = {} /\ searchPc = "idle" /\ searchArgs = Undef
    /\ adapters = Undef /\ settleOrder = <<>> /\ returned = Undef
    /\ history = <<>>

ReviewIdle ==
    actions = <<>> /\ changesApplied = 0 /\ steps = <<>> /\ sessions = 0

ActorsIdle ==
    fd = "none" /\ other = Undef

BatchIdle ==
    /\ profileFile = Undef /\ tmpFile = Undef /\ backupFile = Undef
    /\ suggestionsFile = Undef /\ changelog = Undef
    /\ pc = "idle" /\ ids = Undef /\ data = Undef /\ profile = Undef
    /\ toApply = <<>> /\ skipped = <<>> /\ backupCreated = FALSE
    /\ i = 0 /\ result = Undef /\ start = Undef /\ fsLog = <<>> /\ calls = 0

InitApply ==
    /\ doc \in Docs
    /\ sug \in [section : Paths, type : Types, suggested : {Suggested}]
    /\ out = NoOut
    /\ phase = "input"
    /\ BatchIdle
    /\ HttpIdle /\ FnIdle /\ SearchIdle /\ ReviewIdle /\ ActorsIdle

CallApplySuggestion ==
    /\ phase = "input"
    /\ out' = applySuggestion(sug, doc)
    /\ phase' = "done"
    /\ UNCHANGED <<doc, sug, fileVars, callVars, extVars>>

NextApply == CallApplySuggestion

SpecApply == InitApply /\ [][NextApply]_vars

(***************************************************************************)
(* Properties of applySuggestion (SpecApply).                              *)
(***************************************************************************)
RECURSIVE ValueAt(_, _)
\* the value the parts lead to from d; undefined once a step is missing
ValueAt(d, parts) ==
    IF parts = <<>> THEN d
    ELSE IF IsNullish(d) THEN Undef
    ELSE ValueAt(GetProp(d, parts[1]), Tail(parts))

Prefix(parts) == SubSeq(parts, 1, Len(parts) - 1)

Last(parts) == parts[Len(parts)]

\* the part addresses a key the object has, or an index inside the array
Addresses(container, part) ==
    \/ container.t = "obj" /\ PropKey(part) \in DOMAIN container.f
    \/ /\ container.t = "arr"
       /\ IsArrayIndex(PropKey(part))
       /\ DecVal(PropKey(part)) < Len(container.e)

\* every intermediate segment leads to an object or an array and the final
\* segment addresses an existing key or in-range index
ValidTarget(d, parts) ==
    /\ parts # <<>>
    /\ \A j \in 0..(Len(parts) - 1) :
          ValueAt(d, SubSeq(parts, 1, j)).t \in {"obj", "arr"}
    /\ Addresses(ValueAt(d, Prefix(parts)), Last(parts))

\* containers a and b have the same kind, keys and length, and the same
\* value under every key and index other than the one the part addresses
SameExcept(a, b, part) ==
    /\ a.t = b.t
    /\ a.t = "obj" =>
          /\ DOMAIN a.f = DOMAIN b.f
          /\ \A kk \in DOMAIN a.f : kk # PropKey(part) => a.f[kk] = b.f[kk]
    /\ a.t = "arr" =>
          /\ Len(a.e) = Len(b.e)
          /\ a.x = b.x
          /\ \A j \in 1..Len(a.e) : j # DecVal(PropKey(part)) + 1 => a.e[j] = b.e[j]

RECURSIVE OnlyChangedAt(_, _, _, _)
\* b is a with the value at parts replaced by v and nothing else changed
OnlyChangedAt(a, b, parts, v) ==
    /\ SameExcept(a, b, parts[1])
    /\ IF Len(parts) = 1
       THEN GetProp(b, parts[1]) = v
       ELSE OnlyChangedAt(GetProp(a, parts[1]), GetProp(b, parts[1]), Tail(parts), v)

\* C1: a rewrite, restructure or add whose path resolves to an existing key
\* or in-range index leaves the suggested value there, and every other key
\* of every object and every other index of every array as it was.
C1_RewriteSetsOnlyTarget ==
    (/\ phase = "done"
     /\ sug.type # "remove"
     /\ ValidTarget(doc, ParsePath(sug.section)))
    => /\ ~out.raised
       /\ OnlyChangedAt(doc, out.profile, ParsePath(sug.section), Str(sug.suggested))

C1_Witness ==
    /\ phase = "done"
    /\ sug.type = "rewrite"
    /\ ValidTarget(doc, ParsePath(sug.section))
    /\ Len(ParsePath(sug.section)) = 4
    /\ Last(ParsePath(sug.section)).k = "ix"
    /\ out.profile # doc

\* some intermediate segment of the path is missing or null in d
BrokenPrefix(d, parts) ==
    \E j \in 1..(Len(parts) - 1) : IsNullish(ValueAt(d, SubSeq(parts, 1, j)))

\* C2: when an intermediate segment of the path is missing or null, the
\* call returns the document as it was, for every suggestion type.
C2_UnresolvedLeavesDocument ==
    (phase = "done" /\ BrokenPrefix(doc, ParsePath(sug.section)))
    => (out.profile = doc /\ ~out.raised)

C2_Witness ==
    /\ phase = "done"
    /\ sug.type = "rewrite"
    /\ \E j \in 1..(Len(ParsePath(sug.section)) - 1) :
          ValueAt(doc, SubSeq(ParsePath(sug.section), 1, j)) = Null
    /\ out.profile = doc

\* C3: applySuggestion never raises, and what resolvePath gives as the
\* parent is always an object or an array; a path through a scalar leaves
\* the document unchanged.
C3_NeverRaises ==
    phase = "done" =>
       /\ ~out.raised
       /\ resolvePath(doc, sug.section).found =>
             resolvePath(doc, sug.section).parent.t \in {"obj", "arr"}
       /\ (\E j \in 1..(Len(ParsePath(sug.section)) - 1) :
              ValueAt(doc, SubSeq(ParsePath(sug.section), 1, j)).t \in {"str", "num"})
          => out.profile = doc

\* C4: a remove through a bracketed in-range index of an array shortens the
\* array by one, keeps the elements before the index and moves every later
\* element one position left; a remove on an object leaves the key absent.
C4_RemoveSplicesOrDeletes ==
    (phase = "done" /\ sug.type = "remove" /\ ParsePath(sug.section) # <<>>)
    => LET parts  == ParsePath(sug.section)
           before == ValueAt(doc, Prefix(parts))
           after  == ValueAt(out.profile, Prefix(parts))
           n      == Last(parts).n
       IN  /\ (before.t = "arr" /\ Last(parts).k = "ix" /\ n < Len(before.e)) =>
                 /\ ~out.raised
                 /\ after.t = "arr"
                 /\ Len(after.e) = Len(before.e) - 1
                 /\ \A j \in 1..n : after.e[j] = before.e[j]
                 /\ \A j \in (n + 1)..Len(after.e) : after.e[j] = before.e[j + 1]
           /\ before.t = "obj" =>
                 /\ ~out.raised
                 /\ after.t = "obj"
                 /\ PropKey(Last(parts)) \notin DOMAIN after.f

C4_Witness ==
    /\ phase = "done"
    /\ sug.type = "remove"
    /\ ParsePath(sug.section) # <<>>
    /\ Last(ParsePath(sug.section)).k = "ix"
    /\ ValueAt(doc, Prefix(ParsePath(sug.section))).t = "arr"
    /\ Last(ParsePath(sug.section)).n + 1
          < Len(ValueAt(doc, Prefix(ParsePath(sug.section))).e)
    /\ Len(ParsePath(sug.section)) >= 2

(***************************************************************************)
(* Files.  A file is absent, holds text that JSON.parse rejects, or holds  *)
(* JSON text: the value v it denotes and its layout fmt ("pretty" is what  *)
(* JSON.stringify(_, null, 2) + "\n" writes, "other" any other layout).    *)
(* The suggestions file holds a SuggestionsFile, of which the model keeps  *)
(* the suggestions.  The changelog is absent or a sequence of lines.       *)
(***************************************************************************)
Absent  == [t |-> "absent"]
Garbage == [t |-> "garbage"]
JsonFile(v, fmt) == [t |-> "json", v |-> v, fmt |-> fmt]

existsSync(file) == file.t # "absent"

\* `!v` for a parsed JSON value
Falsy(v) ==
    \/ IsNullish(v)
    \/ v.t = "num" /\ v.n = 0
    \/ v.t = "str" /\ v.s = <<>>

\* loadProfile(): null when the file is absent or does not parse
loadProfile(file) == IF file.t = "json" THEN file.v ELSE Null

\* loadSuggestions(jobId): null when the file is absent or does not parse
loadSuggestions(file) == IF file.t = "json" THEN file.v ELSE Null

RECURSIVE Stringify(_)
\* the value the text JSON.stringify(v) denotes: array holes and undefined
\* elements become null, named properties of arrays and undefined-valued
\* keys are left out
Stringify(v) ==
    CASE v.t = "obj" ->
            Obj([kk \in {k \in DOMAIN v.f : v.f[k].t # "undef"} |-> Stringify(v.f[kk])])
      [] v.t = "arr" ->
            Arr([j \in 1..Len(v.e) |->
                    IF v.e[j].t = "undef" THEN Null ELSE Stringify(v.e[j])])
      [] OTHER -> v

Header == [line |-> "header"]

Entry(suggestion, action) ==
    [line |-> "entry", action |-> action, section |-> suggestion.section,
     principle |-> suggestion.principle, type |-> suggestion.type]

\* a logChange that writes the header and the entry over what the file held
logChangeOverwrites(log, suggestion, action) ==
    [t |-> "text", lines |-> <<Header, Entry(suggestion, action)>>]

\* logChange(suggestion, action, jobId): the changelog file after it
logChange(log, suggestion, action) ==
    LET existing == IF existsSync(log) THEN log.lines ELSE <<Header>>
    IN  [t |-> "text", lines |-> Append(existing, Entry(suggestion, action))]

(***************************************************************************)
(* applyByIds.                                                             *)
(***************************************************************************)
AllIds == [k |-> "all"]
IdList(l) == [k |-> "list", l |-> l]

\* ids === "all" || ids.includes(id)
Selected(arg, id) ==
    \/ arg.k = "all"
    \/ \E j \in 1..Len(arg.l) : arg.l[j] = id

RECURSIVE Partition(_, _, _)
\* the loop over data.suggestions filling toApply and skipped
Partition(suggestions, arg, acc) ==
    IF suggestions = <<>> THEN acc
    ELSE LET s == Head(suggestions)
         IN  Partition(Tail(suggestions), arg,
                IF Selected(arg, s.id)
                THEN [acc EXCEPT !.toApply = Append(@, s)]
                ELSE [acc EXCEPT !.skipped = Append(@, s.id)])

NoResult == [k |-> "none"]
Returned(applied, skip, backup) ==
    [k |-> "returned", applied |-> applied, skipped |-> skip, backupCreated |-> backup]
Thrown(error) == [k |-> "raised", error |-> error]

Snapshot == [profileFile |-> profileFile, backupFile |-> backupFile,
             changelog |-> changelog, suggestionsFile |-> suggestionsFile]

MaxCalls == 2

\* a call of applyByIds(arg, jobId) begins
StartCall(arg) ==
    /\ pc \in {"idle", "done"}
    /\ calls < MaxCalls
    /\ calls' = calls + 1
    /\ ids' = arg
    /\ data' = Undef /\ profile' = Undef
    /\ toApply' = <<>> /\ skipped' = <<>> /\ backupCreated' = FALSE /\ i' = 0
    /\ result' = NoResult
    /\ start' = Snapshot
    /\ fsLog' = <<>>
    /\ pc' = "loadSuggestions"
    /\ UNCHANGED <<applyVars, extVars, fileVars>>

\* the first step without the test of data.suggestions.length
StepLoadSuggestionsNoLengthCheck ==
    /\ pc = "loadSuggestions"
    /\ LET d == loadSuggestions(suggestionsFile)
       IN  IF d = Null
           THEN /\ result' = Returned(<<>>, <<>>, FALSE)
                /\ pc' = "done"
                /\ data' = data
           ELSE /\ data' = d
                /\ pc' = "loadProfile"
                /\ result' = result
    /\ UNCHANGED <<applyVars, extVars, fileVars, ids, profile, toApply, skipped,
                   backupCreated, i, start, fsLog, calls>>

\* const data = loadSuggestions(jobId); if (!data || ...length === 0) return
StepLoadSuggestions ==
    /\ pc = "loadSuggestions"
    /\ LET d == loadSuggestions(suggestionsFile)
       IN  IF d = Null \/ d.suggestions = <<>>
           THEN /\ result' = Returned(<<>>, <<>>, FALSE)
                /\ pc' = "done"
                /\ data' = data
           ELSE /\ data' = d
                /\ pc' = "loadProfile"
                /\ result' = result
    /\ UNCHANGED <<applyVars, extVars, fileVars, ids, profile, toApply, skipped,
                   backupCreated, i, start, fsLog, calls>>

\* the profile check done after the partition, only when toApply is not empty
StepLoadProfileLazy ==
    /\ pc = "loadProfile"
    /\ LET p == loadProfile(profileFile)
           parts == Partition(data.suggestions, ids, [toApply |-> <<>>, skipped |-> <<>>])
       IN  IF Falsy(p) /\ parts.toApply # <<>>
           THEN /\ result' = Thrown("No profile found")
                /\ pc' = "done"
                /\ UNCHANGED <<profile, toApply, skipped>>
           ELSE /\ profile' = p
                /\ toApply' = parts.toApply
                /\ skipped' = parts.skipped
                /\ pc' = "backup"
                /\ result' = result
    /\ UNCHANGED <<applyVars, extVars, fileVars, ids, data, backupCreated, i, start,
                   fsLog, calls>>

\* const profile = loadProfile(); if (!profile) throw; then the partition
StepLoadProfile ==
    /\ pc = "loadProfile"
    /\ LET p == loadProfile(profileFile)
           parts == Partition(data.suggestions, ids, [toApply |-> <<>>, skipped |-> <<>>])
       IN  IF Falsy(p)
           THEN /\ result' = Thrown("No profile found")
                /\ pc' = "done"
                /\ UNCHANGED <<profile, toApply, skipped>>
           ELSE /\ profile' = p
                /\ toApply' = parts.toApply
                /\ skipped' = parts.skipped
                /\ pc' = "backup"
                /\ result' = result
    /\ UNCHANGED <<applyVars, extVars, fileVars, ids, data, backupCreated, i, start,
                   fsLog, calls>>

\* the backup written from the loaded profile instead of copied from the file
StepBackupFromMemory ==
    /\ pc = "backup"
    /\ IF toApply # <<>> /\ existsSync(profileFile)
       THEN /\ backupFile' = JsonFile(Stringify(profile), "pretty")
            /\ backupCreated' = TRUE
            /\ fsLog' = Append(fsLog, "copyBackup")
       ELSE UNCHANGED <<backupFile, backupCreated, fsLog>>
    /\ pc' = IF toApply # <<>> THEN "apply" ELSE "return"
    /\ UNCHANGED <<applyVars, extVars, profileFile, tmpFile, suggestionsFile, changelog,
                   ids, data, profile, toApply, skipped, i, result, start, calls>>

\* the backup made without the test of toApply.length
StepBackupAlways ==
    /\ pc = "backup"
    /\ IF existsSync(profileFile)
       THEN /\ backupFile' = profileFile
            /\ backupCreated' = TRUE
            /\ fsLog' = Append(fsLog, "copyBackup")
       ELSE UNCHANGED <<backupFile, backupCreated, fsLog>>
    /\ pc' = IF toApply # <<>> THEN "apply" ELSE "return"
    /\ UNCHANGED <<applyVars, extVars, profileFile, tmpFile, suggestionsFile, changelog,
                   ids, data, profile, toApply, skipped, i, result, start, calls>>

\* if (toApply.length > 0 && existsSync(PROFILE_PATH)) copyFileSync(...)
StepBackup ==
    /\ pc = "backup"
    /\ IF toApply # <<>> /\ existsSync(profileFile)
       THEN /\ backupFile' = profileFile
            /\ backupCreated' = TRUE
            /\ fsLog' = Append(fsLog, "copyBackup")
       ELSE UNCHANGED <<backupFile, backupCreated, fsLog>>
    /\ pc' = IF toApply # <<>> THEN "apply" ELSE "return"
    /\ UNCHANGED <<applyVars, extVars, profileFile, tmpFile, suggestionsFile, changelog,
                   ids, data, profile, toApply, skipped, i, result, start, calls>>

\* a loop that drops from toApply a suggestion whose path does not resolve
StepApplyDropsUnresolved ==
    /\ pc = "apply"
    /\ IF ~resolvePath(profile, toApply[i + 1].section).found
       THEN /\ toApply' = SubSeq(toApply, 1, i) \o SubSeq(toApply, i + 2, Len(toApply))
            /\ pc' = IF i < Len(toApply) - 1 THEN "apply" ELSE "writeTmp"
            /\ UNCHANGED <<profile, result>>
       ELSE /\ profile' = applySuggestion(toApply[i + 1], profile).profile
            /\ pc' = "log"
            /\ UNCHANGED <<toApply, result>>
    /\ UNCHANGED <<applyVars, extVars, fileVars, ids, data, skipped,
                   backupCreated, i, start, fsLog, calls>>

\* applySuggestion(s, profile) in the loop over toApply
StepApply ==
    /\ pc = "apply"
    /\ LET r == applySuggestion(toApply[i + 1], profile)
       IN  IF r.raised
           THEN /\ result' = Thrown("TypeError")
                /\ pc' = "done"
                /\ profile' = profile
           ELSE /\ profile' = r.profile
                /\ pc' = "log"
                /\ result' = result
    /\ UNCHANGED <<applyVars, extVars, fileVars, ids, data, toApply, skipped,
                   backupCreated, i, start, fsLog, calls>>

\* the backup copy made inside the loop, once per applied suggestion
StepLogChangeRecopies ==
    /\ pc = "log"
    /\ changelog' = logChange(changelog, toApply[i + 1], "approved")
    /\ backupFile' = profileFile
    /\ fsLog' = fsLog \o <<"copyBackup", "writeChangelog">>
    /\ i' = i + 1
    /\ pc' = IF i + 1 < Len(toApply) THEN "apply" ELSE "writeTmp"
    /\ UNCHANGED <<applyVars, extVars, profileFile, tmpFile, suggestionsFile,
                   ids, data, profile, toApply, skipped, backupCreated, result,
                   start, calls>>

\* logChange(s, "approved", jobId) in the loop over toApply
StepLogChange ==
    /\ pc = "log"
    /\ changelog' = logChange(changelog, toApply[i + 1], "approved")
    /\ fsLog' = Append(fsLog, "writeChangelog")
    /\ i' = i + 1
    /\ pc' = IF i + 1 < Len(toApply) THEN "apply" ELSE "writeTmp"
    /\ UNCHANGED <<applyVars, extVars, profileFile, tmpFile, backupFile, suggestionsFile,
                   ids, data, profile, toApply, skipped, backupCreated, result,
                   start, calls>>

\* writeProfileAtomic: writeFileSync(tmp, JSON.stringify(profile, null, 2) + "\n")
StepWriteTmp ==
    /\ pc = "writeTmp"
    /\ tmpFile' = JsonFile(Stringify(profile), "pretty")
    /\ fsLog' = Append(fsLog, "writeTmp")
    /\ pc' = "rename"
    /\ UNCHANGED <<applyVars, extVars, profileFile, backupFile, suggestionsFile, changelog,
                   ids, data, profile, toApply, skipped, backupCreated, i, result,
                   start, calls>>

\* writeProfileAtomic: renameSync(tmp, PROFILE_PATH)
StepRename ==
    /\ pc = "rename"
    /\ profileFile' = tmpFile
    /\ tmpFile' = Absent
    /\ fsLog' = Append(fsLog, "rename")
    /\ pc' = "return"
    /\ UNCHANGED <<applyVars, extVars, backupFile, suggestionsFile, changelog,
                   ids, data, profile, toApply, skipped, backupCreated, i, result,
                   start, calls>>

\* return { applied: toApply.map((s) => s.id), skipped, backupCreated }
StepReturn ==
    /\ pc = "return"
    /\ result' = Returned([j \in 1..Len(toApply) |-> toApply[j].id], skipped,
                          backupCreated)
    /\ pc' = "done"
    /\ UNCHANGED <<applyVars, extVars, fileVars, ids, data, profile, toApply, skipped,
                   backupCreated, i, start, fsLog, calls>>

(***************************************************************************)
(* SpecBatch: calls of applyByIds, one after the other, from every         *)
(* combination of a profile file, a backup file, a suggestions file and a  *)
(* changelog below.                                                        *)
(***************************************************************************)
Sugg(id, section, type, suggested, principle) ==
    [id |-> id, section |-> section, type |-> type, suggested |-> suggested,
     principle |-> principle]

\* { a: "xy", b: ["p", "q", "r"] }
Profile1 == Obj(<<"a">> :> Str(<<"x", "y">>) @@
                <<"b">> :> Arr(<<Str(<<"p">>), Str(<<"q">>), Str(<<"r">>)>>))

\* { a: { a: "u" }, b: ["p"] }
Profile2 == Obj(<<"a">> :> Obj(<<"a">> :> Str(<<"u">>)) @@
                <<"b">> :> Arr(<<Str(<<"p">>)>>))

\* { a: "old" }
OldBackup == Obj(<<"a">> :> Str(<<"o", "l", "d">>))

\* a, b[0], b[1]: a rewrite, an array remove and a rewrite behind it
SuggestionsA ==
    << Sugg(1, <<"a">>, "rewrite", <<"v">>, "scan"),
       Sugg(2, <<"b", "[", "0", "]">>, "remove", <<>>, "relevance"),
       Sugg(3, <<"b", "[", "1", "]">>, "rewrite", <<"w">>, "xyz") >>

\* b[0], c.a, a.b: a remove, a path with a missing segment, and a path that
\* goes through `a`
SuggestionsB ==
    << Sugg(1, <<"b", "[", "0", "]">>, "remove", <<>>, "relevance"),
       Sugg(2, <<"c", ".", "a">>, "add", <<"v">>, "scan"),
       Sugg(3, <<"a", ".", "b">>, "rewrite", <<"w">>, "xyz") >>

\* b.a, b.0: a rewrite of a named property of the array b, which
\* JSON.stringify leaves out, and a remove that leaves a hole in b
SuggestionsC ==
    << Sugg(1, <<"b", ".", "a">>, "rewrite", <<"v">>, "scan"),
       Sugg(2, <<"b", ".", "0">>, "remove", <<>>, "relevance") >>

ProfileFiles == { Absent, Garbage, JsonFile(Profile1, "other"),
                  JsonFile(Profile2, "pretty") }

BackupFiles == { Absent, JsonFile(OldBackup, "other") }

SuggestionsFiles == { Absent, Garbage,
                      JsonFile([suggestions |-> <<>>], "other"),
                      JsonFile([suggestions |-> SuggestionsA], "other"),
                      JsonFile([suggestions |-> SuggestionsB], "other"),
                      JsonFile([suggestions |-> SuggestionsC], "other") }

Changelogs == { Absent,
                [t |-> "text",
                 lines |-> <<Header, Entry(Sugg(5, <<"a">>, "add", <<>>, "scan"),
                                           "skipped")>>] }

IdsArgs == { AllIds, IdList(<<1>>), IdList(<<2>>), IdList(<<3>>),
             IdList(<<1, 3>>), IdList(<<3, 1>>), IdList(<<2, 3>>),
             IdList(<<9>>), IdList(<<9, 2>>) }

InitBatch ==
    /\ doc = Undef
    /\ sug = [section |-> <<>>, type |-> "rewrite", suggested |-> <<>>]
    /\ out = NoOut
    /\ phase = "idle"
    /\ profileFile \in ProfileFiles
    /\ tmpFile = Absent
    /\ backupFile \in BackupFiles
    /\ suggestionsFile \in SuggestionsFiles
    /\ changelog \in Changelogs
    /\ pc = "idle" /\ ids = Undef /\ data = Undef /\ profile = Undef
    /\ toApply = <<>> /\ skipped = <<>> /\ backupCreated = FALSE
    /\ i = 0 /\ result = NoResult /\ start = Undef /\ fsLog = <<>> /\ calls = 0
    /\ HttpIdle /\ FnIdle /\ SearchIdle /\ ReviewIdle /\ ActorsIdle

NextBatch ==
    \/ \E arg \in IdsArgs : StartCall(arg)
    \/ StepLoadSuggestions
    \/ StepLoadProfile
    \/ StepBackup
    \/ StepApply
    \/ StepLogChange
    \/ StepWriteTmp
    \/ StepRename
    \/ StepReturn

SpecBatch == InitBatch /\ [][NextBatch]_vars

(***************************************************************************)
(* Properties of applyByIds (SpecBatch).  They speak of a call that has    *)
(* ended (pc = "done"), of the files as they were when it started (start)  *)
(* and of its file-system writes (fsLog).                                  *)
(***************************************************************************)
\* the suggestions of the file the call started with (none when it is
\* absent or unparseable)
StartSuggestions ==
    IF start.suggestionsFile.t = "json" THEN start.suggestionsFile.v.suggestions
    ELSE <<>>

\* the suggestions of the file whose id the argument selects, in file order
SelectedOf(arg) ==
    LET Test(s) == Selected(arg, s.id) IN SelectSeq(StartSuggestions, Test)

\* the suggestions of the file whose id the argument does not select
RejectedOf(arg) ==
    LET Test(s) == ~Selected(arg, s.id) IN SelectSeq(StartSuggestions, Test)

IdsOf(suggestions) == [j \in 1..Len(suggestions) |-> suggestions[j].id]

StartProfileLoads == ~Falsy(loadProfile(start.profileFile))

FilesUntouched ==
    /\ profileFile = start.profileFile
    /\ backupFile = start.backupFile
    /\ changelog = start.changelog
    /\ suggestionsFile = start.suggestionsFile
    /\ fsLog = <<>>

RECURSIVE ApplyAll(_, _)
\* the profile after applying the suggestions one after the other
ApplyAll(suggestions, p) ==
    IF suggestions = <<>> THEN p
    ELSE ApplyAll(Tail(suggestions), applySuggestion(Head(suggestions), p).profile)

Count(log, op) == Cardinality({j \in 1..Len(log) : log[j] = op})

\* C5: with a suggestions file and an existing profile, the call returns as
\* applied the ids of exactly the selected suggestions and as skipped the
\* ids of all the others, both in file order, so that the two lengths add
\* up to the number of suggestions.
C5_ReturnsPartition ==
    (pc = "done" /\ start.suggestionsFile.t = "json" /\ StartProfileLoads)
    => /\ result.k = "returned"
       /\ result.applied = IdsOf(SelectedOf(ids))
       /\ result.skipped = IdsOf(RejectedOf(ids))
       /\ Len(result.applied) + Len(result.skipped) = Len(StartSuggestions)

\* C6: after a call that returned and applied at least one suggestion, the
\* backup file holds what the profile file held when the call started, and
\* the profile file holds the starting profile with the selected
\* suggestions applied in the order of the suggestions file.
C6_BackupAndProfileAfterApply ==
    (pc = "done" /\ result.k = "returned" /\ result.applied # <<>>)
    => /\ backupFile = start.profileFile
       /\ profileFile =
             JsonFile(Stringify(ApplyAll(SelectedOf(ids), loadProfile(start.profileFile))),
                      "pretty")

C6_Witness ==
    /\ pc = "done"
    /\ result.k = "returned"
    /\ Len(result.applied) = 2
    /\ start.profileFile = JsonFile(Profile1, "other")
    /\ start.backupFile # Absent
    /\ profileFile.v # Profile1

\* every write of the profile path or its temporary file comes after the
\* one copy to the backup path
BackupOnceBeforeWrites ==
    /\ Count(fsLog, "copyBackup") = 1
    /\ \A j \in 1..Len(fsLog) :
          fsLog[j] \in {"writeTmp", "rename"} =>
             \E b \in 1..(j - 1) : fsLog[b] = "copyBackup"

\* C7 as stated: in every call that selects at least one suggestion the
\* backup copy happens exactly once, before the profile file is written.
C7_BackupExactlyOnce ==
    (pc = "done" /\ SelectedOf(ids) # <<>>) => BackupOnceBeforeWrites

\* C7 amended: in every call that selects at least one suggestion and loads
\* a profile, the backup copy happens exactly once, before the profile file
\* is written, however many suggestions are applied; during any call it
\* never happens twice nor after a write of the profile.
C7_BackupOnceWhenProfileLoads ==
    /\ (pc = "done" /\ SelectedOf(ids) # <<>> /\ StartProfileLoads)
          => BackupOnceBeforeWrites
    /\ pc # "idle" =>
          /\ Count(fsLog, "copyBackup") <= 1
          /\ \A j \in 1..Len(fsLog) :
                fsLog[j] \in {"writeTmp", "rename"} =>
                   \E b \in 1..(j - 1) : fsLog[b] = "copyBackup"

C7_Witness ==
    /\ pc = "done"
    /\ result.k = "returned"
    /\ Len(result.applied) = 3
    /\ Count(fsLog, "copyBackup") = 1
    /\ Count(fsLog, "rename") = 1

\* C8 as stated: a call whose ids select no suggestion returns applied = [],
\* skipped = all ids in file order and backupCreated = false, and leaves the
\* profile, the backup and the changelog as they were.
C8_NothingSelected ==
    (pc = "done" /\ SelectedOf(ids) = <<>>)
    => /\ result = Returned(<<>>, IdsOf(StartSuggestions), FALSE)
       /\ FilesUntouched

\* C8 amended: the same, for a call that finds a profile to load or a
\* suggestions file that is absent, unparseable or empty.
C8_NothingSelectedProfileLoads ==
    (/\ pc = "done"
     /\ SelectedOf(ids) = <<>>
     /\ (StartProfileLoads \/ StartSuggestions = <<>>))
    => /\ result = Returned(<<>>, IdsOf(StartSuggestions), FALSE)
       /\ FilesUntouched

C8_Witness ==
    /\ pc = "done"
    /\ ids = IdList(<<9>>)
    /\ result.k = "returned"
    /\ Len(result.skipped) = 3
    /\ start.profileFile.t = "json"
    /\ calls = 1

\* C9 as stated: with a non-empty suggestions file and a profile that is
\* absent or unparseable, the call raises 'no profile found' if it selects
\* a suggestion and returns {applied: [], skipped: all ids, backupCreated:
\* false} if it selects none.
C9_MissingProfileFailsOnlyIfSelected ==
    (pc = "done" /\ StartSuggestions # <<>> /\ start.profileFile.t # "json")
    => IF SelectedOf(ids) # <<>>
       THEN result = Thrown("No profile found")
       ELSE result = Returned(<<>>, IdsOf(StartSuggestions), FALSE)

\* C9 amended: with a non-empty suggestions file and a profile that is
\* absent or unparseable, the call raises 'no profile found' whether or not
\* its ids select a suggestion.
C9_MissingProfileAlwaysFails ==
    (pc = "done" /\ StartSuggestions # <<>> /\ start.profileFile.t # "json")
    => result = Thrown("No profile found")

C9_Witness ==
    /\ pc = "done"
    /\ StartSuggestions # <<>>
    /\ start.profileFile = Absent
    /\ SelectedOf(ids) = <<>>
    /\ result = Thrown("No profile found")

\* C10: when the suggestions file is absent, unparseable or has an empty
\* list, the call returns {applied: [], skipped: [], backupCreated: false}
\* whether or not a profile exists, without loading the profile, creating a
\* backup or appending to the changelog.
C10_NoSuggestionsIsNoOp ==
    (pc = "done" /\ StartSuggestions = <<>>)
    => /\ result = Returned(<<>>, <<>>, FALSE)
       /\ FilesUntouched
       /\ profile = Undef

C10_Witness ==
    /\ pc = "done"
    /\ start.suggestionsFile = Garbage
    /\ start.profileFile = Absent
    /\ result = Returned(<<>>, <<>>, FALSE)

(***************************************************************************)
(* The HTTP server (handleRequest): POST /api/accept and PUT /api/profile, *)
(* one file-system step per action, and a crash of the process between any *)
(* two steps.  The server handles one request at a time: applyByIds and    *)
(* the save of PUT /api/profile are synchronous.                           *)
(***************************************************************************)
\* a request body that req.json() rejects
BadJson == [t |-> "badjson"]

\* a file opened for writing (truncated) whose content is not yet written
Truncated == [t |-> "partial"]

IdsKey  == <<"i", "d", "s">>
NameKey == <<"n", "a", "m", "e">>
AllStr  == Str(<<"a", "l", "l">>)

\* body.key as destructuring or property access reads it from a non-null value
Field(body, key) ==
    IF body.t = "obj" /\ key \in DOMAIN body.f THEN body.f[key] ELSE Undef

\* Array.isArray(v)
IsArray(v) == v.t = "arr"

RECURSIVE NumbersOf(_)
\* the elements of an array that are numbers: `ids.includes(s.id)` compares
\* with ===, and the ids of suggestions are numbers, so the other elements
\* select nothing
NumbersOf(e) ==
    IF e = <<>> THEN <<>>
    ELSE IF Head(e).t = "num" THEN <<Head(e).n>> \o NumbersOf(Tail(e))
         ELSE NumbersOf(Tail(e))

\* the ids argument handed to review.applyByIds
IdsArg(v) == IF v = AllStr THEN AllIds ELSE IdList(NumbersOf(v.e))

\* body.name is a string with a character that trim() keeps
HasName(body) ==
    LET name == Field(body, NameKey)
    IN  name.t = "str" /\ \E j \in 1..Len(name.s) : name.s[j] # " "

Response(status, payload) ==
    [k |-> "response", status |-> status, payload |-> payload]

\* the handler's promise rejects: no Response is produced by handleRequest
Rejected(error) == [k |-> "rejected", status |-> 0, payload |-> error]

\* no answer at all: the process ended
NoAnswer == [k |-> "crashed", status |-> 0, payload |-> ""]

AcceptBody(v) == Obj(IdsKey :> v)

AcceptBodies ==
    { BadJson, Null, Obj(<<>>),
      AcceptBody(Null), AcceptBody(AllStr), AcceptBody(Str(<<"x">>)),
      AcceptBody(Num(1)), AcceptBody(Arr(<<>>)),
      AcceptBody(Arr(<<Num(1)>>)), AcceptBody(Arr(<<Num(1), Num(3)>>)),
      AcceptBody(Arr(<<Num(9)>>)), AcceptBody(Arr(<<Str(<<"x">>)>>)) }

\* { name: "N", a: "z" }, { a: "z" }, { name: " " }
PutBodies ==
    { BadJson, Null,
      Obj(NameKey :> Str(<<"N">>) @@ <<"a">> :> Str(<<"z">>)),
      Obj(<<"a">> :> Str(<<"z">>)),
      Obj(NameKey :> Str(<<" ">>)) }

Requests ==
    { [route |-> "accept", body |-> b] : b \in AcceptBodies }
      \cup { [route |-> "putProfile", body |-> b] : b \in PutBodies }

MaxRequests == 2

Served == IF request = Undef THEN 0 ELSE request.n

\* a request arrives and `await req.json()` has settled
Receive(r) ==
    /\ httpPc = "idle"
    /\ Served < MaxRequests
    /\ request' = [route |-> r.route, body |-> r.body, n |-> Served + 1,
                   files |-> Snapshot]
    /\ response' = Undef
    /\ httpPc' = "validate"
    /\ UNCHANGED <<procVars, applyVars, fileVars, callVars, fnVars, searchVars>>

Reply(r) ==
    /\ response' = r
    /\ httpPc' = "idle"

\* POST /api/accept: the checks of the body before the core is called
AcceptValidate ==
    /\ httpPc = "validate" /\ request.route = "accept"
    /\ LET body == request.body
           v    == Field(body, IdsKey)
       IN  IF body = BadJson
             THEN Reply(Response(400, "Invalid JSON body"))
           ELSE IF body = Null
             THEN Reply(Rejected("TypeError"))
           ELSE IF IsNullish(v)
             THEN Reply(Response(400, "Missing ids field"))
           ELSE IF v # AllStr /\ ~IsArray(v)
             THEN Reply(Response(400, "ids must be an array of numbers or all"))
           ELSE IF IsArray(v) /\ Len(v.e) = 0
             THEN Reply(Response(400, "ids array is empty"))
           ELSE response' = response /\ httpPc' = "call"
    /\ UNCHANGED <<procVars, applyVars, fileVars, callVars, request, fnVars, searchVars>>

\* POST /api/accept: review.applyByIds(ids, resolvedId) begins
AcceptCall ==
    /\ httpPc = "call" /\ pc = "idle"
    /\ StartCall(IdsArg(Field(request.body, IdsKey)))

\* POST /api/accept: the result is returned, a raised error becomes a 500
AcceptReturn ==
    /\ httpPc = "call" /\ pc = "done"
    /\ Reply(IF result.k = "returned"
             THEN Response(200, result)
             ELSE Response(500, result.error))
    /\ pc' = "idle"
    /\ UNCHANGED <<procVars, applyVars, fileVars, ids, data, profile, toApply, skipped,
                   backupCreated, i, result, start, fsLog, calls, request, fnVars, searchVars>>

\* PUT /api/profile: the checks of the body
PutValidate ==
    /\ httpPc = "validate" /\ request.route = "putProfile"
    /\ IF request.body = BadJson
         THEN Reply(Response(400, "Invalid JSON body"))
       ELSE IF ~HasName(request.body)
         THEN Reply(Response(400, "name is required"))
       ELSE response' = response /\ httpPc' = "backup"
    /\ UNCHANGED <<procVars, applyVars, fileVars, callVars, request, fnVars, searchVars>>

\* PUT /api/profile: the existing profile file is copied to the backup path
PutBackup ==
    /\ httpPc = "backup"
    /\ backupFile' = IF existsSync(profileFile) THEN profileFile ELSE backupFile
    /\ httpPc' = "open"
    /\ UNCHANGED <<procVars, applyVars, profileFile, tmpFile, suggestionsFile, changelog,
                   callVars, request, response, fnVars, searchVars>>

\* PUT /api/profile: writeFileSync(PROFILE_PATH, ...) opens the profile file
\* itself for writing, which truncates it
PutOpen ==
    /\ httpPc = "open"
    /\ profileFile' = Truncated
    /\ httpPc' = "write"
    /\ UNCHANGED <<procVars, applyVars, tmpFile, backupFile, suggestionsFile, changelog,
                   callVars, request, response, fnVars, searchVars>>

\* PUT /api/profile: the text JSON.stringify(body, null, 2) is written and
\* the handler answers
PutWrite ==
    /\ httpPc = "write"
    /\ profileFile' = JsonFile(Stringify(request.body), "prettyNoNewline")
    /\ Reply(Response(200, "success"))
    /\ UNCHANGED <<procVars, applyVars, tmpFile, backupFile, suggestionsFile, changelog,
                   callVars, request, fnVars, searchVars>>

\* the process dies between two steps of a handler; the files stay as they
\* are and the next process starts with no call in progress
Crash ==
    /\ httpPc # "idle"
    /\ Reply(NoAnswer)
    /\ pc' = "idle"
    /\ UNCHANGED <<procVars, applyVars, fileVars, ids, data, profile, toApply, skipped,
                   backupCreated, i, result, start, fsLog, calls, request, fnVars, searchVars>>

InitServer ==
    /\ doc = Undef
    /\ sug = [section |-> <<>>, type |-> "rewrite", suggested |-> <<>>]
    /\ out = NoOut
    /\ phase = "idle"
    /\ profileFile \in ProfileFiles
    /\ tmpFile = Absent
    /\ backupFile \in BackupFiles
    /\ suggestionsFile \in { Absent, JsonFile([suggestions |-> SuggestionsA], "other"),
                             JsonFile([suggestions |-> SuggestionsC], "other") }
    /\ changelog = Absent
    /\ pc = "idle" /\ ids = Undef /\ data = Undef /\ profile = Undef
    /\ toApply = <<>> /\ skipped = <<>> /\ backupCreated = FALSE
    /\ i = 0 /\ result = NoResult /\ start = Undef /\ fsLog = <<>> /\ calls = 0
    /\ HttpIdle /\ FnIdle /\ SearchIdle /\ ReviewIdle /\ ActorsIdle

\* the steps of applyByIds run inside the handler of POST /api/accept
NextServer ==
    \/ \E r \in Requests : Receive(r)
    \/ AcceptValidate
    \/ AcceptCall
    \/ StepLoadSuggestions
    \/ StepLoadProfile
    \/ StepBackup
    \/ StepApply
    \/ StepLogChange
    \/ StepWriteTmp
    \/ StepRename
    \/ StepReturn
    \/ AcceptReturn
    \/ PutValidate
    \/ PutBackup
    \/ PutOpen
    \/ PutWrite
    \/ Crash

SpecServer == InitServer /\ [][NextServer]_vars

\* C11: at every moment during and after a profile save, and after a crash
\* between two file-system steps of it, the file at the profile path holds a
\* complete profile (the previous or the new one), never a partly written one
C11_ProfileNeverPartial == profileFile.t # "partial"

(***************************************************************************)
(* applyByIds called again with the same arguments on the files the        *)
(* previous call left.                                                     *)
(***************************************************************************)
FirstCall(arg) ==
    /\ calls = 0
    /\ StartCall(arg)

\* the same call once more: same ids, same namespace, nothing else in between
CallAgain ==
    /\ calls >= 1
    /\ pc = "done"
    /\ StartCall(ids)

NextTwice ==
    \/ \E arg \in IdsArgs : FirstCall(arg)
    \/ CallAgain
    \/ StepLoadSuggestions
    \/ StepLoadProfile
    \/ StepBackup
    \/ StepApply
    \/ StepLogChange
    \/ StepWriteTmp
    \/ StepRename
    \/ StepReturn

SpecTwice == InitBatch /\ [][NextTwice]_vars

\* C12: applyByIds(ids, ns) called twice in succession leaves the same
\* profile file as calling it once: the repeated call does not change it
C12_TwiceSameAsOnce ==
    (calls >= 2 /\ pc = "done") => profileFile = start.profileFile

Lines(log) == IF existsSync(log) THEN log.lines ELSE <<>>

IsPrefixOf(s, t) == Len(s) <= Len(t) /\ SubSeq(t, 1, Len(s)) = s

ApprovedEntries(suggestions) ==
    [j \in 1..Len(suggestions) |-> Entry(suggestions[j], "approved")]

\* C13: the changelog only grows: what it held when a call started is a
\* prefix of what it holds at any later moment of the call, and a call that
\* returns has appended one "approved" entry per applied suggestion, in
\* application order, with its section, principle and type, after the header
\* when the changelog did not exist.
C13_ChangelogAppendOnly ==
    (calls > 0) =>
        /\ IsPrefixOf(Lines(start.changelog), Lines(changelog))
        /\ (pc = "done" /\ result.k = "returned") =>
              /\ result.applied = IdsOf(SelectedOf(ids))
              /\ IF result.applied = <<>>
                 THEN changelog = start.changelog
                 ELSE /\ existsSync(changelog)
                      /\ changelog.lines =
                            (IF existsSync(start.changelog)
                             THEN start.changelog.lines ELSE <<Header>>)
                            \o ApprovedEntries(SelectedOf(ids))

C13_Witness ==
    /\ calls = 2 /\ pc = "done" /\ result.k = "returned"
    /\ Len(result.applied) >= 2
    /\ existsSync(start.changelog)
    /\ Len(start.changelog.lines) >= 3

(***************************************************************************)
(* search.ts: matchesQuery.  Strings are sequences of one-character        *)
(* strings, as for paths.                                                  *)
(***************************************************************************)
UpperCase == <<"A", "B", "C", "D", "E", "F", "G", "H", "I", "J", "K", "L", "M", "N", "O", "P", "Q", "R", "S", "T", "U", "V", "W", "X", "Y", "Z">>
LowerCase == <<"a", "b", "c", "d", "e", "f", "g", "h", "i", "j", "k", "l", "m", "n", "o", "p", "q", "r", "s", "t", "u", "v", "w", "x", "y", "z">>

\* String.prototype.toLowerCase, letter by letter
KeepCase(s) == s

toLowerCase(s) ==
    [j \in 1..Len(s) |->
        IF \E k \in 1..Len(UpperCase) : UpperCase[k] = s[j]
        THEN LowerCase[CHOOSE k \in 1..Len(UpperCase) : UpperCase[k] = s[j]]
        ELSE s[j]]

\* a character that the class \s of a regular expression matches
IsSpace(c) == c = " "

RECURSIVE SplitFrom(_, _, _)
\* s.split(/\s+/) from position p on, cur being the piece collected so far:
\* a run of white space ends a piece, also an empty one at either end
SplitFrom(s, p, cur) ==
    IF p > Len(s) THEN <<cur>>
    ELSE IF IsSpace(s[p])
         THEN IF p < Len(s) /\ IsSpace(s[p + 1])
              THEN SplitFrom(s, p + 1, cur)
              ELSE <<cur>> \o SplitFrom(s, p + 1, <<>>)
         ELSE SplitFrom(s, p + 1, Append(cur, s[p]))

Split(s) == SplitFrom(s, 1, <<>>)

STOPWORDS == { <<"a">>,
               <<"a", "n">>,
               <<"t", "h", "e">>,
               <<"i", "n">>,
               <<"a", "t">>,
               <<"f", "o", "r">>,
               <<"a", "n", "d">>,
               <<"o", "r">>,
               <<"o", "f">>,
               <<"w", "i", "t", "h">>,
               <<"t", "o">>,
               <<"o", "n">>,
               <<"i", "s">> }

\* text.includes(w)
Includes(text, w) ==
    \E p \in 0..(Len(text) - Len(w)) : SubSeq(text, p + 1, p + Len(w)) = w

Words(q) ==
    LET Keep(w) == Len(w) > 1 /\ w \notin STOPWORDS
    IN  SelectSeq(Split(toLowerCase(q)), Keep)

\* a matchesQuery that is content with one word of the query being present
matchesQueryAny(q, t, extra) ==
    LET words        == Words(q)
        titleLower   == toLowerCase(t)
        fullText     == titleLower \o <<" ">> \o toLowerCase(extra)
        InTitle(w)   == Includes(titleLower, w)
        InFull(w)    == Includes(fullText, w)
        titleMatches == Len(SelectSeq(words, InTitle))
        fullMatches  == Len(SelectSeq(words, InFull))
    IN  IF Len(words) = 0 THEN 1
        ELSE IF fullMatches = 0 THEN 0
        ELSE titleMatches * 2 + (fullMatches - titleMatches)

matchesQuery(q, t, extra) ==
    LET words        == Words(q)
        titleLower   == toLowerCase(t)
        fullText     == titleLower \o <<" ">> \o toLowerCase(extra)
        InTitle(w)   == Includes(titleLower, w)
        InFull(w)    == Includes(fullText, w)
        titleMatches == Len(SelectSeq(words, InTitle))
        fullMatches  == Len(SelectSeq(words, InFull))
    IN  IF Len(words) = 0 THEN 1
        ELSE IF fullMatches < Len(words) THEN 0
        ELSE titleMatches * 2 + (fullMatches - titleMatches)

SeqsUpTo(S, n) == UNION { [1..m -> S] : m \in 0..n }

MaxQueryLen == 5

\* "an" is a stop word, "aa", "na" and "nn" are not
QueryChars == {"a", "n", "A", " "}

TitleTexts ==
    { <<>>, <<"a">>, <<"n">>, <<"A">>,
      <<"a", "a">>, <<"a", "n">>, <<"n", "a">>, <<"n", "n">>,
      <<"A", "a">>, <<"a", "A">>, <<"A", "n">>, <<"n", "A">>, <<"A", "A">> }

ExtraTexts ==
    { <<>>, <<"a">>, <<"n">>,
      <<"a", "a">>, <<"a", "n">>, <<"n", "a">>, <<"n", "n">> }

SeniorBackendEngineer == <<"s", "e", "n", "i", "o", "r", " ", "b", "a", "c", "k", "e", "n", "d", " ", "e", "n", "g", "i", "n", "e", "e", "r">>
BackendEngineer       == <<"b", "a", "c", "k", "e", "n", "d", " ", "e", "n", "g", "i", "n", "e", "e", "r">>
BackendEngineerTitle  == <<"B", "a", "c", "k", "e", "n", "d", " ", "E", "n", "g", "i", "n", "e", "e", "r">>
SeniorTitle           == <<"S", "e", "n", "i", "o", "r", " ", "B", "a", "c", "k", "e", "n", "d", " ", "E", "n", "g", "i", "n", "e", "e", "r">>
Blockchain            == <<"b", "l", "o", "c", "k", "c", "h", "a", "i", "n">>

ExampleCalls ==
    { <<SeniorBackendEngineer, BackendEngineerTitle, <<>> >>,
      <<Blockchain, BackendEngineerTitle, <<>> >>,
      <<BackendEngineer, SeniorTitle, <<>> >> }

MatchCalls ==
    (SeqsUpTo(QueryChars, MaxQueryLen) \X TitleTexts \X ExtraTexts)
    \cup ExampleCalls

InitMatch ==
    /\ doc = Undef
    /\ sug = [section |-> <<>>, type |-> "rewrite", suggested |-> <<>>]
    /\ out = NoOut
    /\ phase = "input"
    /\ BatchIdle
    /\ HttpIdle /\ SearchIdle /\ ReviewIdle /\ ActorsIdle
    /\ \E c \in MatchCalls : query = c[1] /\ title = c[2] /\ extraText = c[3]
    /\ score = 0
    /\ jobs = <<>> /\ deduped = <<>>

CallMatchesQuery ==
    /\ phase = "input"
    /\ score' = matchesQuery(query, title, extraText)
    /\ phase' = "done"
    /\ UNCHANGED <<procVars, doc, sug, out, fileVars, callVars, httpVars, searchVars,
                   query, title, extraText, jobs, deduped>>

NextMatch == CallMatchesQuery

SpecMatch == InitMatch /\ [][NextMatch]_vars

\* the reference: the tokens are the maximal runs without white space of the
\* lower-cased query, named by their first and last position
TokenSpans(q) ==
    { sp \in (1..Len(q)) \X (1..Len(q)) :
        /\ sp[1] <= sp[2]
        /\ \A p \in sp[1]..sp[2] : ~IsSpace(q[p])
        /\ (sp[1] = 1 \/ IsSpace(q[sp[1] - 1]))
        /\ (sp[2] = Len(q) \/ IsSpace(q[sp[2] + 1])) }

\* W: the tokens longer than one character that are not stop words
W(q) == { sp \in TokenSpans(q) :
            /\ sp[2] - sp[1] + 1 > 1
            /\ SubSeq(q, sp[1], sp[2]) \notin STOPWORDS }

IsSubstring(w, text) ==
    \E a \in 1..(Len(text) + 1), b \in 0..Len(text) : SubSeq(text, a, b) = w

Reference(q, t, extra) ==
    LET lq       == toLowerCase(q)
        text     == toLowerCase(t \o <<" ">> \o extra)
        inTitle  == { sp \in W(lq) : IsSubstring(SubSeq(lq, sp[1], sp[2]), toLowerCase(t)) }
        missing  == { sp \in W(lq) : ~IsSubstring(SubSeq(lq, sp[1], sp[2]), text) }
    IN  IF W(lq) = {} THEN 1
        ELSE IF missing # {} THEN 0
        ELSE 2 * Cardinality(inTitle) + Cardinality(W(lq) \ inTitle)

\* C14: matchesQuery returns the reference score for every query, title and
\* extra text: 1 without tokens, 0 when a token is missing, otherwise twice
\* the tokens found in the title plus the tokens not found in it, which lies
\* between |W| and 2|W|; the score is 0 only when a token is missing.
C14_MatchesReference ==
    phase = "done" =>
        LET n == Cardinality(W(toLowerCase(query)))
        IN  /\ score = Reference(query, title, extraText)
            /\ (n > 0 /\ score # 0) => (n <= score /\ score <= 2 * n)
            /\ score = 0 =>
                  \E sp \in W(toLowerCase(query)) :
                      ~IsSubstring(SubSeq(toLowerCase(query), sp[1], sp[2]),
                                   toLowerCase(title \o <<" ">> \o extraText))

C14_Witness ==
    /\ phase = "done"
    /\ Cardinality(W(toLowerCase(query))) = 2
    /\ score = 3
    /\ query # toLowerCase(query)

Called(q, t, extra) ==
    phase = "done" /\ query = q /\ title = t /\ extraText = extra

\* C15 as stated: the query "senior backend engineer" scores above 0 on the
\* title "Backend Engineer", and the query "blockchain" scores 0 on it
C15_SpecExamples ==
    /\ Called(SeniorBackendEngineer, BackendEngineerTitle, <<>>) => score > 0
    /\ Called(Blockchain, BackendEngineerTitle, <<>>) => score = 0

\* C15: "senior" is not in the title "Backend Engineer", so the query
\* "senior backend engineer" scores 0 on it, as "blockchain" does; the query
\* "backend engineer" on the title "Senior Backend Engineer" scores 4
C15_ExamplesAllTokensRequired ==
    /\ Called(SeniorBackendEngineer, BackendEngineerTitle, <<>>) => score = 0
    /\ Called(Blockchain, BackendEngineerTitle, <<>>) => score = 0
    /\ Called(BackendEngineer, SeniorTitle, <<>>) => score = 4

C15_Witness ==
    Called(SeniorBackendEngineer, BackendEngineerTitle, <<>>) /\ score = 0

(***************************************************************************)
(* search.ts: dedupe.  A job is a JobResult, of which the model keeps the  *)
(* URL, the source and the title.  URLs hold no line terminator, so the    *)
(* `.*$` of the first replace runs from the first "?" to the end.          *)
(***************************************************************************)
Job(url, source, t) == [jobUrl |-> url, source |-> source, title |-> t]

\* jobUrl.replace(/\?.*$/, "")
StripQuery(u) ==
    IF \E p \in 1..Len(u) : u[p] = "?"
    THEN SubSeq(u, 1, (CHOOSE p \in 1..Len(u) :
                          u[p] = "?" /\ \A k \in 1..(p - 1) : u[k] # "?") - 1)
    ELSE u

RECURSIVE StripSlashes(_)
\* .replace(/\/+$/, "")
StripSlashes(u) ==
    IF u # <<>> /\ u[Len(u)] = "/" THEN StripSlashes(SubSeq(u, 1, Len(u) - 1))
    ELSE u

\* the key of dedupe
Key(j) == toLowerCase(StripSlashes(StripQuery(j.jobUrl)))

RECURSIVE FilterLast(_)
\* a dedupe in which the last job of each key stays
FilterLast(list) ==
    IF list = <<>> THEN <<>>
    ELSE IF \E k \in 2..Len(list) : Key(list[k]) = Key(Head(list))
         THEN FilterLast(Tail(list))
         ELSE <<Head(list)>> \o FilterLast(Tail(list))

dedupeKeepsLast(list) == FilterLast(list)

RECURSIVE FilterSeen(_, _)
\* jobs.filter(...) with the set `seen`
FilterSeen(list, seen) ==
    IF list = <<>> THEN <<>>
    ELSE IF Key(Head(list)) \in seen
         THEN FilterSeen(Tail(list), seen)
         ELSE <<Head(list)>> \o FilterSeen(Tail(list), seen \cup {Key(Head(list))})

dedupe(list) == FilterSeen(list, {})

MaxJobs == 3

Urls == { <<"x", "/", "1">>,
          <<"x", "/", "1", "/">>,
          <<"x", "/", "1", "?", "r">>,
          <<"X", "/", "1", "/", "/">>,
          <<"x", "/", "1", "/", "?", "a", "?", "b">>,
          <<"x", "/", "2">>,
          <<"x", "/", "2", "?", "/">> }

SomeJobs == { Job(u, s, "t") : u \in Urls, s \in {"linkedin", "greenhouse"} }

\* https://x.com/job/1?ref=abc from linkedin, https://x.com/job/1/ from lever
ExampleJobs ==
    << Job(<<"h", "t", "t", "p", "s", ":", "/", "/", "x", ".", "c", "o", "m", "/", "j", "o", "b", "/", "1", "?", "r", "e", "f", "=", "a", "b", "c">>, "linkedin", "first"),
       Job(<<"h", "t", "t", "p", "s", ":", "/", "/", "x", ".", "c", "o", "m", "/", "j", "o", "b", "/", "1", "/">>, "lever", "second") >>

JobLists == SeqsUpTo(SomeJobs, MaxJobs) \cup {ExampleJobs}

InitDedupe ==
    /\ doc = Undef
    /\ sug = [section |-> <<>>, type |-> "rewrite", suggested |-> <<>>]
    /\ out = NoOut
    /\ phase = "input"
    /\ BatchIdle
    /\ HttpIdle /\ SearchIdle /\ ReviewIdle /\ ActorsIdle
    /\ query = <<>> /\ title = <<>> /\ extraText = <<>> /\ score = 0
    /\ jobs \in JobLists
    /\ deduped = <<>>

CallDedupe ==
    /\ phase = "input"
    /\ deduped' = dedupe(jobs)
    /\ phase' = "done"
    /\ UNCHANGED <<procVars, doc, sug, out, fileVars, callVars, httpVars, searchVars,
                   query, title, extraText, score, jobs>>

NextDedupe == CallDedupe

SpecDedupe == InitDedupe /\ [][NextDedupe]_vars

\* the canonical key as the claim words it: the URL up to its first "?",
\* without the slashes at its end, in lower case
CanonicalKey(u) ==
    LET cut  == IF \E p \in 1..Len(u) : u[p] = "?"
                THEN CHOOSE p \in 0..(Len(u) - 1) :
                        /\ u[p + 1] = "?"
                        /\ \A k \in 1..p : u[k] # "?"
                ELSE Len(u)
        stop == CHOOSE m \in 0..cut :
                    /\ m = 0 \/ u[m] # "/"
                    /\ \A k \in (m + 1)..cut : u[k] = "/"
    IN  toLowerCase(SubSeq(u, 1, stop))

\* the positions of the input holding the first job of a key
FirstOfKey(list) ==
    { k \in 1..Len(list) :
        \A m \in 1..(k - 1) :
            CanonicalKey(list[m].jobUrl) # CanonicalKey(list[k].jobUrl) }

RECURSIVE AtPositions(_, _, _)
\* the members of the list at the positions of S from k on, in list order
AtPositions(list, S, k) ==
    IF k > Len(list) THEN <<>>
    ELSE (IF k \in S THEN <<list[k]>> ELSE <<>>) \o AtPositions(list, S, k + 1)

\* C16: dedupe returns, in input order, the first job of every canonical
\* key (URL up to the first "?", trailing slashes removed, lower-cased): no
\* two jobs of the output share a key, every key of the input has a job in
\* the output, and each job kept is the input job as it was, with no field
\* of a dropped duplicate in it.
C16_DedupeKeepsFirstOfKey ==
    phase = "done" =>
        /\ deduped = AtPositions(jobs, FirstOfKey(jobs), 1)
        /\ \A a, b \in 1..Len(deduped) :
              a # b => CanonicalKey(deduped[a].jobUrl) # CanonicalKey(deduped[b].jobUrl)
        /\ \A k \in 1..Len(jobs) : \E a \in 1..Len(deduped) :
              CanonicalKey(deduped[a].jobUrl) = CanonicalKey(jobs[k].jobUrl)
        /\ \A a \in 1..Len(deduped) : \E k \in 1..Len(jobs) : deduped[a] = jobs[k]

C16_Witness ==
    /\ phase = "done"
    /\ Len(jobs) = 3 /\ Len(deduped) = 2
    /\ deduped = <<jobs[1], jobs[2]>>
    /\ jobs[3].jobUrl # jobs[1].jobUrl
    /\ jobs[3].source # jobs[1].source
    /\ CanonicalKey(jobs[3].jobUrl) = CanonicalKey(jobs[1].jobUrl)

(***************************************************************************)
(* search.ts: search, its three source adapters and the search cache.  The *)
(* cache module is modelled from its specification: an entry per (query,   *)
(* serialized options) holding the stored list and the time it was stored, *)
(* which get returns while it is younger than the TTL passed.              *)
(***************************************************************************)
CACHE_TTL_MS == 1800000

\* cache.get(query, params, ttl) at time t
CacheGet(c, q, params, ttl, t) ==
    IF \E e \in c : e.query = q /\ e.params = params /\ t - e.at < ttl
    THEN [hit |-> TRUE,
          data |-> (CHOOSE e \in c : e.query = q /\ e.params = params).data]
    ELSE [hit |-> FALSE, data |-> <<>>]

\* cache.set(query, params, data) at time t
CacheSet(c, q, params, list, t) ==
    { e \in c : ~(e.query = q /\ e.params = params) }
        \cup { [query |-> q, params |-> params, data |-> list, at |-> t] }

\* SearchOptions: site ("" when not given), greenhouseBoards, leverSites
Options(site, boards, sites) ==
    [site |-> site, greenhouseBoards |-> boards, leverSites |-> sites]

\* JSON.stringify(opts): the text, named by the members it lists in order
Serialize(o) ==
    [json |-> (IF o.site = "" THEN <<>> ELSE <<"site", o.site>>)
              \o (IF o.greenhouseBoards = <<>> THEN <<>> ELSE <<"greenhouseBoards">> \o o.greenhouseBoards)
              \o (IF o.leverSites = <<>> THEN <<>> ELSE <<"leverSites">> \o o.leverSites)]

Sources == <<"jobspy", "greenhouse", "lever">>

\* the promises search pushes, in the order it pushes them
Invoked(o) ==
    LET Pushed(s) ==
            \/ s = "jobspy" /\ o.site \in {"", "linkedin", "indeed"}
            \/ s = "greenhouse" /\ Len(o.greenhouseBoards) > 0
            \/ s = "lever" /\ Len(o.leverSites) > 0
    IN  SelectSeq(Sources, Pushed)

\* the boards or sites an adapter fetches one after the other
Targets(o, s) ==
    CASE s = "jobspy" -> <<"scrapeJobs">>
      [] s = "greenhouse" -> o.greenhouseBoards
      [] s = "lever" -> o.leverSites

\* what the network gives an adapter for one request
Failed(kind) == [k |-> kind, items |-> <<>>]
Fetched(items) == [k |-> "ok", items |-> items]

\* an item of a response: a scraped job, a Greenhouse job or a Lever posting
Item(t, text, url, site) == [title |-> t, text |-> text, url |-> url, site |-> site]

Untitled == <<"U", "n", "t", "i", "t", "l", "e", "d">>

RECURSIVE InsertByScore(_, _)
\* the place of a scored item in a list sorted by score, highest first,
\* behind the items of equal score (Array.prototype.sort is stable)
InsertByScore(x, sorted) ==
    IF sorted = <<>> THEN <<x>>
    ELSE IF Head(sorted).score >= x.score
         THEN <<Head(sorted)>> \o InsertByScore(x, Tail(sorted))
         ELSE <<x>> \o sorted

RECURSIVE SortByScore(_)
\* scored.sort((a, b) => b.score - a.score)
SortByScore(scored) ==
    IF scored = <<>> THEN <<>>
    ELSE InsertByScore(scored[Len(scored)],
                       SortByScore(SubSeq(scored, 1, Len(scored) - 1)))

\* the extra text an adapter hands to matchesQuery: the location, (for Lever
\* the team,) and the description joined by spaces; the model's items have
\* no location and no team
Extra(s, item) ==
    IF s = "greenhouse" THEN <<" ">> \o item.text ELSE <<" ", " ">> \o item.text

\* the JobResults an adapter makes of the items of one response
Mapped(s, q, items) ==
    IF s = "jobspy"
    THEN [j \in 1..Len(items) |->
            Job(items[j].url,
                IF items[j].site = "" THEN "jobspy" ELSE items[j].site,
                IF items[j].title = <<>> THEN Untitled ELSE items[j].title)]
    ELSE LET scored == [j \in 1..Len(items) |->
                          [item |-> items[j],
                           score |-> matchesQuery(q, items[j].title, Extra(s, items[j]))]]
             Match(x) == x.score > 0
             kept   == SortByScore(SelectSeq(scored, Match))
         IN  [j \in 1..Len(kept) |-> Job(kept[j].item.url, s, kept[j].item.title)]

RECURSIVE Flat(_)
\* Array.prototype.flat on a list of lists
Flat(lists) == IF lists = <<>> THEN <<>> ELSE Head(lists) \o Flat(Tail(lists))

NotInvoked == [state |-> "notInvoked", responses |-> <<>>, results |-> <<>>]
Running    == [state |-> "running", responses |-> <<>>, results |-> <<>>]

SourceSet == {Sources[j] : j \in 1..Len(Sources)}

ListReturned(list) == [k |-> "returned", list |-> list]

\* a search that does not look into the cache
SearchStartIgnoresCache(q, o) ==
    /\ searchPc \in {"idle", "done"}
    /\ searchArgs' = [query |-> q, opts |-> o, startedAt |-> now]
    /\ settleOrder' = <<>>
    /\ adapters' = [s \in SourceSet |->
                      IF \E j \in 1..Len(Invoked(o)) : Invoked(o)[j] = s
                      THEN Running ELSE NotInvoked]
    /\ returned' = NoResult
    /\ searchPc' = "waiting"
    /\ UNCHANGED <<cache, history>>
    /\ UNCHANGED <<procVars, applyVars, fileVars, callVars, httpVars, fnVars, now>>

\* a search that takes an empty cached list for a miss
SearchStartEmptyIsMiss(q, o) ==
    /\ searchPc \in {"idle", "done"}
    /\ searchArgs' = [query |-> q, opts |-> o, startedAt |-> now]
    /\ settleOrder' = <<>>
    /\ LET cached == CacheGet(cache, q, Serialize(o), CACHE_TTL_MS, now)
       IN  IF cached.hit /\ cached.data # <<>>
           THEN /\ adapters' = [s \in SourceSet |-> NotInvoked]
                /\ returned' = ListReturned(cached.data)
                /\ searchPc' = "done"
                /\ history' = Append(history,
                                  [query |-> q, params |-> Serialize(o),
                                   startedAt |-> now, at |-> now, hit |-> TRUE,
                                   list |-> cached.data, invoked |-> <<>>])
           ELSE /\ adapters' = [s \in SourceSet |->
                                  IF \E j \in 1..Len(Invoked(o)) : Invoked(o)[j] = s
                                  THEN Running ELSE NotInvoked]
                /\ returned' = NoResult
                /\ searchPc' = "waiting"
                /\ history' = history
    /\ UNCHANGED <<procVars, applyVars, fileVars, callVars, httpVars, fnVars, now, cache>>

\* search(query, opts) up to `await Promise.all(promises)`: the cache lookup
\* and, on a miss, the invocation of the adapters
SearchStart(q, o) ==
    /\ searchPc \in {"idle", "done"}
    /\ searchArgs' = [query |-> q, opts |-> o, startedAt |-> now]
    /\ settleOrder' = <<>>
    /\ LET cached == CacheGet(cache, q, Serialize(o), CACHE_TTL_MS, now)
       IN  IF cached.hit
           THEN /\ adapters' = [s \in SourceSet |-> NotInvoked]
                /\ returned' = ListReturned(cached.data)
                /\ searchPc' = "done"
                /\ history' = Append(history,
                                  [query |-> q, params |-> Serialize(o),
                                   startedAt |-> now, at |-> now, hit |-> TRUE,
                                   list |-> cached.data, invoked |-> <<>>])
           ELSE /\ adapters' = [s \in SourceSet |->
                                  IF \E j \in 1..Len(Invoked(o)) : Invoked(o)[j] = s
                                  THEN Running ELSE NotInvoked]
                /\ returned' = NoResult
                /\ searchPc' = "waiting"
                /\ history' = history
    /\ UNCHANGED <<procVars, applyVars, fileVars, callVars, httpVars, fnVars, now, cache>>

\* the promise of source s settles with its results
Settle(s, a) ==
    /\ adapters' = [adapters EXCEPT ![s] = a]
    /\ settleOrder' = IF a.state = "running" THEN settleOrder
                      ELSE Append(settleOrder, s)
    /\ UNCHANGED <<procVars, applyVars, fileVars, callVars, httpVars, fnVars, now, cache,
                   searchPc, searchArgs, returned, history>>

\* the response to the one request of s being in flight, in an adapter
\* without try/catch: a failure rejects the adapter's promise
AfterResponseNoCatch(s, r) ==
    LET a    == adapters[s]
        all  == Append(a.responses, r)
        more == Len(all) < Len(Targets(searchArgs.opts, s))
    IN  IF r.k # "ok"
        THEN [state |-> "rejected", responses |-> all, results |-> <<>>]
        ELSE [state |-> IF more THEN "running" ELSE "settled",
              responses |-> all,
              results |-> a.results \o Mapped(s, searchArgs.query, r.items)]

\* the response to the one request of s being in flight: a failure is caught
\* (jobspy: .catch(() => []); a board or site: catch or `continue`) and adds
\* nothing; the adapter goes on to its next board or site, or returns
AfterResponse(s, r) ==
    LET a    == adapters[s]
        all  == Append(a.responses, r)
        more == Len(all) < Len(Targets(searchArgs.opts, s))
    IN  [state |-> IF more THEN "running" ELSE "settled",
         responses |-> all,
         results |-> a.results \o
                        (IF r.k = "ok" THEN Mapped(s, searchArgs.query, r.items)
                         ELSE <<>>)]

searchJobSpy(r) ==
    /\ searchPc = "waiting" /\ adapters["jobspy"].state = "running"
    /\ Settle("jobspy", AfterResponse("jobspy", r))

searchGreenhouse(r) ==
    /\ searchPc = "waiting" /\ adapters["greenhouse"].state = "running"
    /\ Settle("greenhouse", AfterResponse("greenhouse", r))

searchLever(r) ==
    /\ searchPc = "waiting" /\ adapters["lever"].state = "running"
    /\ Settle("lever", AfterResponse("lever", r))

\* the results of the invoked adapters in the order given
Gathered(order) == Flat([j \in 1..Len(order) |-> adapters[order[j]].results])

\* search from the resolution of Promise.all on: flat, dedupe, cache.set;
\* allResults and uniqueResults are the constants allResults and `deduped`
\* of the code
Finish(order) ==
    /\ searchPc = "waiting"
    /\ \A j \in 1..Len(Invoked(searchArgs.opts)) :
          adapters[Invoked(searchArgs.opts)[j]].state \in {"settled", "rejected"}
    /\ IF \E s \in SourceSet : adapters[s].state = "rejected"
       THEN /\ returned' = Thrown("rejected")
            /\ UNCHANGED <<cache, history>>
       ELSE \E allResults \in {Gathered(order)} :
            \E uniqueResults \in {dedupe(allResults)} :
               /\ returned' = ListReturned(uniqueResults)
               /\ cache' = CacheSet(cache, searchArgs.query,
                                    Serialize(searchArgs.opts), uniqueResults, now)
               /\ history' = Append(history,
                                 [query |-> searchArgs.query,
                                  params |-> Serialize(searchArgs.opts),
                                  startedAt |-> searchArgs.startedAt, at |-> now,
                                  hit |-> FALSE,
                                  list |-> uniqueResults,
                                  invoked |-> Invoked(searchArgs.opts)])
    /\ searchPc' = "done"
    /\ UNCHANGED <<procVars, applyVars, fileVars, callVars, httpVars, fnVars, now,
                   searchArgs, adapters, settleOrder>>

\* a gathering of the results in the order in which the promises settled
SearchFinishInSettleOrder == Finish(settleOrder)

\* a search whose caller is resumed only when no request of a source failed
SearchFinishOnlyIfAllOk ==
    /\ \A s \in SourceSet : \A j \in 1..Len(adapters[s].responses) :
          adapters[s].responses[j].k = "ok"
    /\ Finish(Invoked(searchArgs.opts))

\* Promise.all gives the results in the order of the promises pushed
SearchFinish == Finish(Invoked(searchArgs.opts))

MaxTtlSpans == 2

\* time passes: half a TTL
Tick ==
    /\ now < MaxTtlSpans * CACHE_TTL_MS
    /\ now' = now + CACHE_TTL_MS \div 2
    /\ UNCHANGED <<procVars, applyVars, fileVars, callVars, httpVars, fnVars, cache,
                   searchPc, searchArgs, adapters, settleOrder, returned, history>>

MaxSearches == 1

Na == <<"n", "a">>

Queries == { Na }

\* {greenhouseBoards: [b1, b2], leverSites: [s1]}, {site: "greenhouse",
\* greenhouseBoards: [b1, b2]}, {site: "linkedin"}
OptionsSet ==
    { Options("", <<"b1", "b2">>, <<"s1">>),
      Options("greenhouse", <<"b1", "b2">>, <<>>),
      Options("linkedin", <<>>, <<>>) }

\* scrapeJobs rejects, or gives jobs of linkedin and indeed
JobspyResponses ==
    { Failed("rejected"),
      Fetched(<<Item(Na, <<>>, <<"x", "/", "1">>, "linkedin")>>),
      Fetched(<<Item(Na, <<>>, <<"x", "/", "2">>, "indeed"), Item(<<>>, <<>>, <<"X", "/", "1", "?", "r">>, "")>>) }

\* fetch rejects, the status is not ok, the body is no JSON, or the board
\* lists jobs: one matching in its content, one in its title, one not at all
GreenhouseResponses ==
    { Failed("networkError"), Failed("notOk"), Failed("parseError"),
      Fetched(<<Item(<<"a">>, Na, <<"x", "/", "2", "/">>, ""), Item(Na, <<>>, <<"x", "/", "1", "/">>, ""),
                Item(<<"a">>, <<>>, <<"x", "/", "3">>, "")>>) }

LeverResponses ==
    { Failed("networkError"),
      Fetched(<<Item(Na, <<>>, <<"X", "/", "1", "?", "s">>, "")>>) }

InitSearch ==
    /\ doc = Undef
    /\ sug = [section |-> <<>>, type |-> "rewrite", suggested |-> <<>>]
    /\ out = NoOut
    /\ phase = "idle"
    /\ BatchIdle
    /\ HttpIdle /\ FnIdle /\ ReviewIdle /\ ActorsIdle
    /\ now = 0
    /\ cache = {}
    /\ searchPc = "idle"
    /\ searchArgs = Undef
    /\ adapters = [s \in SourceSet |-> NotInvoked]
    /\ settleOrder = <<>>
    /\ returned = NoResult
    /\ history = <<>>

NextSearch ==
    \/ \E q \in Queries, o \in OptionsSet :
          Len(history) < MaxSearches /\ SearchStart(q, o)
    \/ \E r \in JobspyResponses : searchJobSpy(r)
    \/ \E r \in GreenhouseResponses : searchGreenhouse(r)
    \/ \E r \in LeverResponses : searchLever(r)
    \/ SearchFinish

SpecSearch == InitSearch /\ [][NextSearch]_vars

\* the adapters that were invoked by the call
Miss == \E s \in SourceSet : adapters[s].state # "notInvoked"

\* what a source gives when each failed request counts as an empty list
Contribution(s) ==
    Flat([j \in 1..Len(adapters[s].responses) |->
            IF adapters[s].responses[j].k = "ok"
            THEN Mapped(s, searchArgs.query, adapters[s].responses[j].items)
            ELSE <<>>])

KeysOf(list) == { Key(list[j]) : j \in 1..Len(list) }

\* C17: whatever requests of the sources fail (the jobspy scrape, the fetch
\* of a Greenhouse board or a Lever site, its status or its parsing), the
\* search returns a list: the deduplicated results of the requests that
\* succeeded, the failed ones counting as empty, with nothing of another
\* source or board dropped.
C17_FailuresAreIsolated ==
    (searchPc = "done" /\ Miss) =>
        /\ returned.k = "returned"
        /\ returned.list =
              dedupe(Contribution("jobspy") \o Contribution("greenhouse")
                        \o Contribution("lever"))
        /\ \A s \in SourceSet :
              KeysOf(Contribution(s)) \subseteq KeysOf(returned.list)

C17_Witness ==
    /\ searchPc = "done"
    /\ adapters["jobspy"].responses = <<Failed("rejected")>>
    /\ Len(adapters["greenhouse"].responses) = 2
    /\ adapters["greenhouse"].responses[1].k = "networkError"
    /\ adapters["greenhouse"].responses[2].k = "ok"
    /\ adapters["lever"].responses # <<>>
    /\ adapters["lever"].responses[1].k = "ok"
    /\ returned.k = "returned"
    /\ Len(returned.list) = 2
    /\ returned.list[1].source = "greenhouse"

\* the place of the adapter a job comes from in the order of invocation
InvocationRank(source) ==
    CASE source = "greenhouse" -> 2
      [] source = "lever" -> 3
      [] OTHER -> 1

SourceRank(s) == CHOOSE j \in 1..Len(Sources) : Sources[j] = s

\* C18: in whatever order the adapters settle, the list returned is the
\* deduplication of their results flattened in invocation order (jobspy,
\* Greenhouse, Lever), so of the jobs sharing a canonical URL the one kept
\* comes from the adapter invoked first.
C18_InvocationOrderDecides ==
    (searchPc = "done" /\ Miss) =>
        /\ returned.k = "returned"
        /\ returned.list =
              dedupe(adapters["jobspy"].results \o adapters["greenhouse"].results
                        \o adapters["lever"].results)
        /\ \A k \in 1..Len(returned.list), s \in SourceSet :
              \A m \in 1..Len(adapters[s].results) :
                  Key(adapters[s].results[m]) = Key(returned.list[k])
                      => InvocationRank(returned.list[k].source) <= SourceRank(s)

C18_Witness ==
    /\ searchPc = "done"
    /\ settleOrder = <<"lever", "greenhouse", "jobspy">>
    /\ returned.k = "returned"
    /\ \E k \in 1..Len(returned.list) :
          /\ InvocationRank(returned.list[k].source) = 1
          /\ \E m \in 1..Len(adapters["lever"].results) :
                Key(adapters["lever"].results[m]) = Key(returned.list[k])
          /\ \E m \in 1..Len(adapters["greenhouse"].results) :
                Key(adapters["greenhouse"].results[m]) = Key(returned.list[k])

(***************************************************************************)
(* Successive searches while time passes.                                  *)
(***************************************************************************)
MaxCachedSearches == 3

\* {site: "linkedin"}, {site: "greenhouse", greenhouseBoards: [b1]}, and
\* {site: "lever"}, with which no adapter is invoked
CachedOptions ==
    { Options("linkedin", <<>>, <<>>),
      Options("greenhouse", <<"b1">>, <<>>),
      Options("lever", <<>>, <<>>) }

CachedJobspyResponses ==
    { Failed("rejected"),
      Fetched(<<Item(Na, <<>>, <<"x", "/", "1">>, "linkedin")>>) }

CachedGreenhouseResponses ==
    { Fetched(<<Item(Na, <<>>, <<"x", "/", "1", "/">>, ""), Item(<<"a">>, Na, <<"x", "/", "2">>, "")>>) }

NextCache ==
    \/ \E q \in Queries, o \in CachedOptions :
          Len(history) < MaxCachedSearches /\ SearchStart(q, o)
    \/ \E r \in CachedJobspyResponses : searchJobSpy(r)
    \/ \E r \in CachedGreenhouseResponses : searchGreenhouse(r)
    \/ SearchFinish
    \/ Tick

SpecCache == InitSearch /\ [][NextCache]_vars

SameSearch(a, b) == a.query = b.query /\ a.params = b.params

\* every entry of the cache was stored by a completed search that had waited
\* for its adapters, and holds the deduplicated list that search returned
StoredOnlyWhenComplete ==
    \A e \in cache :
        /\ dedupe(e.data) = e.data
        /\ \E k \in 1..Len(history) :
              /\ ~history[k].hit
              /\ history[k].query = e.query /\ history[k].params = e.params
              /\ history[k].list = e.data /\ history[k].at = e.at

\* C19 as stated: a search made less than 30 minutes after any earlier
\* completed search with the same query and serialized options invokes no
\* adapter and returns the list that search returned
C19_HitAfterAnyEarlierSearch ==
    /\ \A j, k \in 1..Len(history) :
          (j < k /\ SameSearch(history[j], history[k])
                 /\ history[k].startedAt - history[j].at < CACHE_TTL_MS)
          => /\ history[k].invoked = <<>>
             /\ history[k].list = history[j].list
    /\ StoredOnlyWhenComplete

\* C19: a search made less than 30 minutes after the completion of an
\* earlier search with the same query and serialized options that fetched
\* from the sources (and so stored its list) invokes no adapter and
\* returns the list that search returned; the cache is written only by a
\* search whose adapters have all settled, with its deduplicated list
C19_HitAfterStoringSearch ==
    /\ \A j, k \in 1..Len(history) :
          (j < k /\ SameSearch(history[j], history[k])
                 /\ ~history[j].hit
                 /\ history[k].startedAt - history[j].at < CACHE_TTL_MS)
          => /\ history[k].invoked = <<>>
             /\ history[k].list = history[j].list
    /\ StoredOnlyWhenComplete

C19_Witness ==
    /\ Len(history) >= 2
    /\ SameSearch(history[1], history[2])
    /\ history[1].invoked # <<>>
    /\ history[1].list # <<>>
    /\ history[2].startedAt > history[1].at
    /\ history[2].startedAt - history[1].at < CACHE_TTL_MS
    /\ history[2].invoked = <<>>
    /\ history[2].list = history[1].list
    /\ searchPc = "done" /\ ~Miss

\* ids is the string "all" or a non-empty array of integers
WellFormedIds(body) ==
    LET v == Field(body, IdsKey)
    IN  \/ v = AllStr
        \/ /\ IsArray(v) /\ Len(v.e) > 0
           /\ \A j \in 1..Len(v.e) : v.e[j].t = "num"

Answered ==
    /\ request # Undef /\ request.route = "accept"
    /\ httpPc = "idle" /\ response.k # "crashed"

\* C20: a POST /api/accept whose ids is missing, null, an empty array or
\* anything but "all" or an array of integers never reaches applyByIds and
\* is answered 400 with the profile, the backup and the changelog as they
\* were; an error raised by applyByIds is answered 500 with its message.
C20_RejectsMalformedIds ==
    /\ (request # Undef /\ request.route = "accept"
            /\ ~WellFormedIds(request.body))
       => /\ httpPc # "call"
          /\ Answered => /\ response.status = 400
                         /\ profileFile = request.files.profileFile
                         /\ backupFile = request.files.backupFile
                         /\ changelog = request.files.changelog
    /\ (Answered /\ WellFormedIds(request.body) /\ result.k = "raised")
       => /\ response.status = 500
          /\ response.payload = result.error

(***************************************************************************)
(* runInteractiveReview: one session is a call of the function; each       *)
(* keystroke read at the prompt runs one iteration of its loop.  The       *)
(* session uses the locals data, backupCreated, i and profile, and the     *)
(* files, of the model of applyByIds; `steps` records what it applied.     *)
(***************************************************************************)
Void == [k |-> "void"]

MaxSessions == 1

Action(id, section, action) == [id |-> id, section |-> section, action |-> action]

Step(suggestion, action, at, input) ==
    [s |-> suggestion, action |-> action, at |-> at, input |-> input]

\* const data = loadSuggestions(jobId); if (!data || ...length === 0) return
ReviewStart ==
    /\ pc \in {"idle", "done"}
    /\ calls < MaxCalls /\ sessions < MaxSessions
    /\ calls' = calls + 1 /\ sessions' = sessions + 1
    /\ start' = Snapshot
    /\ fsLog' = <<>>
    /\ ids' = Undef /\ profile' = Undef /\ toApply' = <<>> /\ skipped' = <<>>
    /\ backupCreated' = FALSE /\ i' = 0
    /\ actions' = <<>> /\ changesApplied' = 0 /\ steps' = <<>>
    /\ LET d == loadSuggestions(suggestionsFile)
       IN  IF d = Null \/ d.suggestions = <<>>
           THEN /\ data' = Undef
                /\ result' = Void
                /\ pc' = "done"
           ELSE /\ data' = d
                /\ result' = NoResult
                /\ pc' = "prompt"
    /\ UNCHANGED <<applyVars, fileVars, httpVars, fnVars, searchVars, actorVars>>

\* the end of an iteration: i++, and the summary and the return after the
\* last suggestion
NextSuggestion ==
    /\ i' = i + 1
    /\ IF i + 1 < Len(data.suggestions)
       THEN pc' = "prompt" /\ result' = result
       ELSE pc' = "done" /\ result' = Void

\* if (ch === "q") break
ReviewQuit ==
    /\ pc = "prompt"
    /\ pc' = "done"
    /\ result' = Void
    /\ UNCHANGED <<applyVars, fileVars, ids, data, profile, toApply, skipped,
                   backupCreated, i, start, fsLog, calls, httpVars, fnVars,
                   searchVars, procVars>>

\* a step that copies the profile to the backup path whether or not the
\* session has made its backup
AcceptBackupEveryStep(s, derived, action, input) ==
    LET backup == existsSync(profileFile)
        copied == IF backup THEN <<"copyBackup">> ELSE <<>>
        p == loadProfile(profileFile)
        r == applySuggestion(derived, p)
    IN  /\ backupFile' = IF backup THEN profileFile ELSE backupFile
        /\ backupCreated' = (backupCreated \/ backup)
        /\ IF Falsy(p)
           THEN /\ fsLog' = fsLog \o copied
                /\ profile' = p
                /\ NextSuggestion
                /\ UNCHANGED <<profileFile, tmpFile, changelog, reviewVars>>
           ELSE IF r.raised
           THEN /\ fsLog' = fsLog \o copied
                /\ profile' = p
                /\ result' = Thrown("TypeError")
                /\ pc' = "done"
                /\ UNCHANGED <<profileFile, tmpFile, changelog, reviewVars, i>>
           ELSE /\ profile' = r.profile
                /\ profileFile' = JsonFile(Stringify(r.profile), "pretty")
                /\ tmpFile' = Absent
                /\ changelog' = logChange(changelog, derived, action)
                /\ fsLog' = fsLog \o copied \o <<"writeTmp", "rename", "writeChangelog">>
                /\ changesApplied' = changesApplied + 1
                /\ actions' = Append(actions, Action(derived.id, derived.section, action))
                /\ steps' = Append(steps, Step(derived, action, i, input))
                /\ sessions' = sessions
                /\ NextSuggestion
        /\ UNCHANGED <<applyVars, suggestionsFile, ids, toApply, skipped,
                       start, calls, httpVars, fnVars, searchVars, actorVars>>

\* the backup before the first change, loadProfile, and when the profile
\* loads applySuggestion, writeProfileAtomic, logChange, changesApplied++ and
\* actions.push; s is the suggestion shown, derived the one applied
Accept(s, derived, action, input) ==
    LET backup == ~backupCreated /\ existsSync(profileFile)
        copied == IF backup THEN <<"copyBackup">> ELSE <<>>
        p == loadProfile(profileFile)
        r == applySuggestion(derived, p)
    IN  /\ backupFile' = IF backup THEN profileFile ELSE backupFile
        /\ backupCreated' = (backupCreated \/ backup)
        /\ IF Falsy(p)
           THEN /\ fsLog' = fsLog \o copied
                /\ profile' = p
                /\ NextSuggestion
                /\ UNCHANGED <<profileFile, tmpFile, changelog, reviewVars>>
           ELSE IF r.raised
           THEN /\ fsLog' = fsLog \o copied
                /\ profile' = p
                /\ result' = Thrown("TypeError")
                /\ pc' = "done"
                /\ UNCHANGED <<profileFile, tmpFile, changelog, reviewVars, i>>
           ELSE /\ profile' = r.profile
                /\ profileFile' = JsonFile(Stringify(r.profile), "pretty")
                /\ tmpFile' = Absent
                /\ changelog' = logChange(changelog, derived, action)
                /\ fsLog' = fsLog \o copied \o <<"writeTmp", "rename", "writeChangelog">>
                /\ changesApplied' = changesApplied + 1
                /\ actions' = Append(actions, Action(derived.id, derived.section, action))
                /\ steps' = Append(steps, Step(derived, action, i, input))
                /\ sessions' = sessions
                /\ NextSuggestion
        /\ UNCHANGED <<applyVars, suggestionsFile, ids, toApply, skipped,
                       start, calls, httpVars, fnVars, searchVars, actorVars>>

\* an iteration that changes no file but records the suggestion as skipped
SkipEmpty(s) ==
    /\ actions' = Append(actions, Action(s.id, s.section, "skipped"))
    /\ NextSuggestion
    /\ UNCHANGED <<applyVars, fileVars, ids, data, profile, toApply, skipped,
                   backupCreated, start, fsLog, calls, changesApplied, steps,
                   sessions, httpVars, fnVars, searchVars, actorVars>>

\* if (ch === "a")
ReviewApprove ==
    /\ pc = "prompt"
    /\ LET s == data.suggestions[i + 1]
       IN  Accept(s, s, "approved", <<>>)
    /\ UNCHANGED data

\* an edit that overrides the suggested text of the loaded suggestion itself
ReviewEditInPlace(edited) ==
    /\ pc = "prompt"
    /\ LET s == data.suggestions[i + 1]
       IN  IF edited # <<>>
           THEN /\ Accept(s, [s EXCEPT !.suggested = edited], "edited", edited)
                /\ data' = [data EXCEPT !.suggestions[i + 1].suggested = edited]
           ELSE SkipEmpty(s)

\* else if (ch === "e"), with the line read as `edited`
ReviewEdit(edited) ==
    /\ pc = "prompt"
    /\ LET s == data.suggestions[i + 1]
       IN  IF edited # <<>>
           THEN /\ Accept(s, [s EXCEPT !.suggested = edited], "edited", edited)
                /\ UNCHANGED data
           ELSE SkipEmpty(s)

\* else if (ch === "m"), with the lines read as `section` and `text`
ReviewManual(section, text) ==
    /\ pc = "prompt"
    /\ LET s == data.suggestions[i + 1]
       IN  IF section # <<>> /\ text # <<>>
           THEN /\ Accept(s, Sugg(9000 + i, section, "rewrite", text, "user"),
                            "manual", text)
                /\ UNCHANGED data
           ELSE SkipEmpty(s)

\* else: skip, or any other key
ReviewSkip ==
    /\ pc = "prompt"
    /\ LET s == data.suggestions[i + 1]
       IN  /\ changelog' = logChange(changelog, s, "skipped")
           /\ actions' = Append(actions, Action(s.id, s.section, "skipped"))
    /\ fsLog' = Append(fsLog, "writeChangelog")
    /\ NextSuggestion
    /\ UNCHANGED <<applyVars, profileFile, tmpFile, backupFile, suggestionsFile,
                   ids, data, profile, toApply, skipped, backupCreated, start,
                   calls, changesApplied, steps, sessions, httpVars, fnVars,
                   searchVars, actorVars>>

(***************************************************************************)
(* SpecReview: sessions of the interactive review and calls of applyByIds, *)
(* one after the other in any order, over the same files.                  *)
(***************************************************************************)
\* the lines typed at the edit prompt
EditedTexts == { <<>>, <<"z">> }

\* the section and the text typed at the manual prompts
ManualInputs == { [section |-> <<>>, text |-> <<"m">>],
                  [section |-> <<"b", "[", "1", "]">>, text |-> <<"m">>] }

InitReview ==
    /\ doc = Undef
    /\ sug = [section |-> <<>>, type |-> "rewrite", suggested |-> <<>>]
    /\ out = NoOut
    /\ phase = "idle"
    /\ profileFile \in ProfileFiles
    /\ tmpFile = Absent
    /\ backupFile \in BackupFiles
    /\ suggestionsFile \in { Absent, JsonFile([suggestions |-> SuggestionsA], "other"),
                             JsonFile([suggestions |-> SuggestionsB], "other") }
    /\ changelog = Absent
    /\ pc = "idle" /\ ids = Undef /\ data = Undef /\ profile = Undef
    /\ toApply = <<>> /\ skipped = <<>> /\ backupCreated = FALSE
    /\ i = 0 /\ result = NoResult /\ start = Undef /\ fsLog = <<>> /\ calls = 0
    /\ HttpIdle /\ FnIdle /\ SearchIdle /\ ReviewIdle /\ ActorsIdle

NextReview ==
    \/ ReviewStart
    \/ ReviewQuit
    \/ ReviewApprove
    \/ \E edited \in EditedTexts : ReviewEdit(edited)
    \/ \E m \in ManualInputs : ReviewManual(m.section, m.text)
    \/ ReviewSkip
    \/ StartCall(AllIds)
    \/ StepLoadSuggestions
    \/ StepLoadProfile
    \/ StepBackup
    \/ StepApply
    \/ StepLogChange
    \/ StepWriteTmp
    \/ StepRename
    \/ StepReturn

SpecReview == InitReview /\ [][NextReview]_vars

(***************************************************************************)
(* Properties of the apply operations over the suggestions (SpecReview).   *)
(***************************************************************************)
\* C21: no call of applyByIds and no step of the interactive review changes
\* the suggestions file or a loaded suggestion: at every step the file is
\* what it was when the operation started, the loaded suggestions are those
\* of the file, and what an edit step applied is a copy of the suggestion
\* shown that differs from it in the suggested text only, which is the line
\* typed.
C21_SuggestionsNeverModified ==
    calls > 0 =>
        /\ suggestionsFile = start.suggestionsFile
        /\ data # Undef => data.suggestions = StartSuggestions
        /\ \A j \in 1..Len(steps) :
              steps[j].action = "edited" =>
                  steps[j].s = [StartSuggestions[steps[j].at + 1]
                                   EXCEPT !.suggested = steps[j].input]

\* a session applied an edit whose text differs from the suggested one, and
\* a call of applyByIds after it applied suggestions and returned
C21_Witness ==
    /\ pc = "done" /\ ids # Undef
    /\ result.k = "returned" /\ result.applied # <<>>
    /\ \E j \in 1..Len(steps) :
          /\ steps[j].action = "edited"
          /\ steps[j].input # StartSuggestions[steps[j].at + 1].suggested

(***************************************************************************)
(* Malformed paths (SpecApply).                                            *)
(***************************************************************************)
IsSeparator(c) == c \in {"[", ".", "]"}

\* the empty path and the paths made of separators only
OnlySeparators(path) == \A p \in 1..Len(path) : IsSeparator(path[p])

\* the bracket opened at p holds one or more digits and is closed after them
DigitBracket(path, p) ==
    \E q \in (p + 2)..Len(path) :
        /\ path[q] = "]"
        /\ \A j \in (p + 1)..(q - 1) : IsDigit(path[j])

\* some bracket segment of the path holds something else than digits
BadBracket(path) ==
    \E p \in 1..Len(path) : path[p] = "[" /\ ~DigitBracket(path, p)

Malformed(path) == OnlySeparators(path) \/ BadBracket(path)

\* C22: applySuggestion with an empty path, a path of separators only or a
\* path with a bracket segment that does not hold digits returns the
\* document as it was and raises nothing.
C22_MalformedLeavesDocument ==
    (phase = "done" /\ Malformed(sug.section))
    => (~out.raised /\ out.profile = doc /\ ~resolvePath(doc, sug.section).found)

\* the part of C22 that the code meets: a path without any name or index
C22_NoTokensLeavesDocument ==
    (phase = "done" /\ OnlySeparators(sug.section))
    => (~out.raised /\ out.profile = doc /\ ~resolvePath(doc, sug.section).found)

(***************************************************************************)
(* Suggestions whose path does not resolve (SpecBatch).                    *)
(***************************************************************************)
\* the profile in memory when the j-th selected suggestion is applied
ProfileBefore(j) ==
    ApplyAll(SubSeq(SelectedOf(ids), 1, j - 1), loadProfile(start.profileFile))

\* the j-th selected suggestion finds nothing at its path
Unresolved(j) ==
    ~resolvePath(ProfileBefore(j), SelectedOf(ids)[j].section).found

Candidates(s) ==
    Flat([j \in 1..Len(adapters[s].responses) |-> adapters[s].responses[j].items])

ScoreOf(s, item) == matchesQuery(searchArgs.query, item.title, Extra(s, item))

\* the positions of the matching candidates, highest score first and, at
\* equal score, in the order of the listing
Ranking(s) ==
    LET c == Candidates(s)
        matching == { j \in 1..Len(c) : ScoreOf(s, c[j]) > 0 }
    IN  CHOOSE f \in [1..Cardinality(matching) -> matching] :
            \A a, b \in 1..Cardinality(matching) :
                a < b => \/ ScoreOf(s, c[f[a]]) > ScoreOf(s, c[f[b]])
                         \/ /\ ScoreOf(s, c[f[a]]) = ScoreOf(s, c[f[b]])
                            /\ f[a] < f[b]

\* C24: the list an adapter returns holds exactly the candidates that score
\* above 0, sorted by score descending, candidates of equal score in the
\* order of the listing, whatever the number of boards or sites queried.
C24_AdapterListRanked ==
    \A s \in {"greenhouse", "lever"} :
        (searchPc # "idle" /\ adapters[s].state = "settled") =>
            adapters[s].results =
                [j \in 1..Len(Ranking(s)) |->
                    Job(Candidates(s)[Ranking(s)[j]].url, s,
                        Candidates(s)[Ranking(s)[j]].title)]

\* the part of C24 that the code meets: an adapter that got one listing
C24_OneListingRanked ==
    \A s \in {"greenhouse", "lever"} :
        (searchPc # "idle" /\ adapters[s].state = "settled"
           /\ Cardinality({j \in 1..Len(adapters[s].responses) :
                              adapters[s].responses[j].k = "ok"}) <= 1) =>
            adapters[s].results =
                [j \in 1..Len(Ranking(s)) |->
                    Job(Candidates(s)[Ranking(s)[j]].url, s,
                        Candidates(s)[Ranking(s)[j]].title)]

(***************************************************************************)
(* Two actors.  The CLI process and the server process each run applyByIds *)
(* on the same files; the operating system runs one of them at a time and  *)
(* may switch between any two of their file-system calls.  writeFileSync   *)
(* is an open with truncation, a write and a close.  An open descriptor    *)
(* follows its file: after a rename of the temp path onto the profile path *)
(* it writes into what the profile path names, and after that file was     *)
(* replaced in turn into a file no path names.                             *)
(***************************************************************************)
RECURSIVE TextLength(_, _)
RECURSIVE MembersLength(_, _, _)
RECURSIVE ElementsLength(_, _)
\* the number of characters of JSON.stringify(v, null, 2) for a value at the
\* given depth (the model's strings need no escapes)
TextLength(v, depth) ==
    CASE v.t = "str" -> Len(v.s) + 2
      [] v.t = "num" -> Len(ToDec(v.n))
      [] v.t = "obj" ->
            IF DOMAIN v.f = {} THEN 2
            ELSE 2 + MembersLength(v.f, DOMAIN v.f, depth + 1)
                   + 2 * (Cardinality(DOMAIN v.f) - 1) + 1 + 2 * depth + 1
      [] v.t = "arr" ->
            IF v.e = <<>> THEN 2
            ELSE 2 + ElementsLength(v.e, depth + 1)
                   + 2 * (Len(v.e) - 1) + 1 + 2 * depth + 1
      [] OTHER -> 4

\* the members of an object, each as indent, "key": and value
MembersLength(f, keys, depth) ==
    IF keys = {} THEN 0
    ELSE LET k == CHOOSE kk \in keys : TRUE
         IN  2 * depth + Len(k) + 4 + TextLength(f[k], depth)
               + MembersLength(f, keys \ {k}, depth)

\* the elements of an array, each as indent and value
ElementsLength(e, depth) ==
    IF e = <<>> THEN 0
    ELSE 2 * depth + TextLength(Head(e), depth) + ElementsLength(Tail(e), depth)

\* a file holding the start of one text and the rest of a longer one
Mixed(len) == [t |-> "mixed", len |-> len]

FileLength(file) ==
    CASE file.t = "json" -> TextLength(file.v, 0) + 1
      [] file.t = "mixed" -> file.len
      [] OTHER -> 0

\* a file after a write of the text `written` at its start
Overwrite(file, written) ==
    IF FileLength(written) >= FileLength(file) THEN written
    ELSE Mixed(FileLength(file))

Locals ==
    [pc |-> pc, ids |-> ids, data |-> data, profile |-> profile,
     toApply |-> toApply, skipped |-> skipped, backupCreated |-> backupCreated,
     i |-> i, result |-> result, start |-> start, fsLog |-> fsLog, fd |-> fd]

IdleLocals ==
    [pc |-> "idle", ids |-> Undef, data |-> Undef, profile |-> Undef,
     toApply |-> <<>>, skipped |-> <<>>, backupCreated |-> FALSE,
     i |-> 0, result |-> NoResult, start |-> Undef, fsLog |-> <<>>, fd |-> "none"]

\* the operating system runs the other actor
Switch ==
    /\ other' = Locals
    /\ pc' = other.pc /\ ids' = other.ids /\ data' = other.data
    /\ profile' = other.profile /\ toApply' = other.toApply
    /\ skipped' = other.skipped /\ backupCreated' = other.backupCreated
    /\ i' = other.i /\ result' = other.result /\ start' = other.start
    /\ fsLog' = other.fsLog /\ fd' = other.fd
    /\ UNCHANGED <<applyVars, fileVars, calls, httpVars, fnVars, searchVars,
                   reviewVars>>

\* writeProfileAtomic, writeFileSync(tmp, ...): the open with truncation
ActorOpenTmp ==
    /\ pc = "writeTmp"
    /\ tmpFile' = Truncated
    /\ fd' = "tmp"
    /\ fsLog' = Append(fsLog, "openTmp")
    /\ pc' = "writeData"
    /\ UNCHANGED <<applyVars, profileFile, backupFile, suggestionsFile, changelog,
                   ids, data, profile, toApply, skipped, backupCreated, i, result,
                   start, calls, other, httpVars, fnVars, searchVars, reviewVars>>

\* writeProfileAtomic, writeFileSync(tmp, ...): the write and the close
ActorWriteTmp ==
    /\ pc = "writeData"
    /\ LET written == JsonFile(Stringify(profile), "pretty")
       IN  /\ tmpFile' = IF fd = "tmp" THEN Overwrite(tmpFile, written) ELSE tmpFile
           /\ profileFile' = IF fd = "profile" THEN Overwrite(profileFile, written)
                             ELSE profileFile
    /\ fd' = "none"
    /\ fsLog' = Append(fsLog, "writeTmp")
    /\ pc' = "rename"
    /\ UNCHANGED <<applyVars, backupFile, suggestionsFile, changelog,
                   ids, data, profile, toApply, skipped, backupCreated, i, result,
                   start, calls, other, httpVars, fnVars, searchVars, reviewVars>>

\* writeProfileAtomic, renameSync(tmp, PROFILE_PATH): it raises when the
\* other actor has renamed the temp file away
ActorRename ==
    /\ pc = "rename"
    /\ IF existsSync(tmpFile)
       THEN /\ profileFile' = tmpFile
            /\ tmpFile' = Absent
            /\ other' = [other EXCEPT !.fd = CASE @ = "tmp" -> "profile"
                                               [] @ = "profile" -> "unlinked"
                                               [] OTHER -> @]
            /\ fsLog' = Append(fsLog, "rename")
            /\ pc' = "return"
            /\ result' = result
       ELSE /\ result' = Thrown("ENOENT")
            /\ pc' = "done"
            /\ UNCHANGED <<profileFile, tmpFile, other, fsLog>>
    /\ UNCHANGED <<applyVars, backupFile, suggestionsFile, changelog,
                   ids, data, profile, toApply, skipped, backupCreated, i,
                   start, calls, fd, httpVars, fnVars, searchVars, reviewVars>>

(***************************************************************************)
(* SpecActors: calls of applyByIds by two actors, their file-system calls  *)
(* interleaved in every way.                                               *)
(***************************************************************************)
InitActors ==
    /\ doc = Undef
    /\ sug = [section |-> <<>>, type |-> "rewrite", suggested |-> <<>>]
    /\ out = NoOut
    /\ phase = "idle"
    /\ profileFile \in { JsonFile(Profile1, "other"), JsonFile(Profile2, "pretty") }
    /\ tmpFile = Absent
    /\ backupFile = Absent
    /\ suggestionsFile = JsonFile([suggestions |-> SuggestionsA], "other")
    /\ changelog = Absent
    /\ pc = "idle" /\ ids = Undef /\ data = Undef /\ profile = Undef
    /\ toApply = <<>> /\ skipped = <<>> /\ backupCreated = FALSE
    /\ i = 0 /\ result = NoResult /\ start = Undef /\ fsLog = <<>> /\ calls = 0
    /\ HttpIdle /\ FnIdle /\ SearchIdle /\ ReviewIdle
    /\ fd = "none" /\ other = IdleLocals

NextActors ==
    \/ \E arg \in {AllIds, IdList(<<1>>), IdList(<<2>>)} : StartCall(arg)
    \/ StepLoadSuggestions
    \/ StepLoadProfile
    \/ StepBackup
    \/ StepApply
    \/ StepLogChange
    \/ ActorOpenTmp
    \/ ActorWriteTmp
    \/ ActorRename
    \/ StepReturn
    \/ Switch

SpecActors == InitActors /\ [][NextActors]_vars

\* C25: whatever the interleaving of two actors running applyByIds, the
\* profile path always names a complete profile: never a file that was
\* opened and not yet written, and never a mix of two written texts.
C25_ProfileAlwaysComplete ==
    profileFile.t = "json"

(***************************************************************************)
(* Completion of search.  Once the promises of all the invoked adapters    *)
(* have settled, Promise.all resolves and the event loop resumes search:   *)
(* SearchFinish, when enabled, is eventually taken.                        *)
(***************************************************************************)
SpecSearchFair == SpecSearch /\ WF_vars(SearchFinish)

AllSettled ==
    /\ searchPc = "waiting"
    /\ \A j \in 1..Len(Invoked(searchArgs.opts)) :
          adapters[Invoked(searchArgs.opts)[j]].state \in {"settled", "rejected"}

\* C26: the promise of search is never rejected, and a search all of whose
\* invoked adapters have settled, with whatever failures, eventually
\* resolves with a list.
C26_SearchCompletes ==
    /\ [](returned.k # "raised")
    /\ AllSettled ~> (searchPc = "done" /\ returned.k = "returned")

\* a search that resolved although every request of every adapter it
\* invoked had failed
C26_Witness ==
    /\ searchPc = "done" /\ returned.k = "returned"
    /\ Len(Invoked(searchArgs.opts)) >= 2
    /\ \A j \in 1..Len(Invoked(searchArgs.opts)) :
          LET a == adapters[Invoked(searchArgs.opts)[j]]
          IN  /\ a.responses # <<>>
              /\ \A n \in 1..Len(a.responses) : a.responses[n].k # "ok"

(***************************************************************************)
(* Calls of applyByIds that raise (SpecBatch).                             *)
(***************************************************************************)
\* C27: a call that ends by raising leaves the profile, the backup and the
\* changelog as they were when it started, and has written no file.
C27_RaiseLeavesFilesUntouched ==
    (pc = "done" /\ result.k = "raised") => FilesUntouched

\* the part of C27 that the code meets: the call that raises because no
\* profile loads
C27_NoProfileLeavesFilesUntouched ==
    (pc = "done" /\ result.k = "raised" /\ result.error = "No profile found")
    => FilesUntouched

(***************************************************************************)
(* Array indices within one call of applyByIds (SpecBatch).                *)
(***************************************************************************)
\* the selected suggestions x and y are a remove at index i and another
\* change at an index j > i of the same array of the starting profile
RemoveBefore(x, y) ==
    LET sx == SelectedOf(ids)[x]
        sy == SelectedOf(ids)[y]
        px == ParsePath(sx.section)
        py == ParsePath(sy.section)
    IN  /\ sx.type = "remove" /\ sy.type # "remove"
        /\ px # <<>> /\ py # <<>>
        /\ Prefix(px) = Prefix(py)
        /\ Last(px).k = "ix" /\ Last(py).k = "ix"
        /\ Last(px).n < Last(py).n
        /\ ValueAt(loadProfile(start.profileFile), Prefix(px)).t = "arr"
        /\ Last(py).n < Len(ValueAt(loadProfile(start.profileFile), Prefix(px)).e)

\* the array of the starting profile with the element at j replaced and the
\* element at i taken out
ChangedAtStartIndices(x, y) ==
    LET sx == SelectedOf(ids)[x]
        sy == SelectedOf(ids)[y]
        ix == Last(ParsePath(sx.section)).n
        jx == Last(ParsePath(sy.section)).n
        e0 == ValueAt(loadProfile(start.profileFile), Prefix(ParsePath(sx.section))).e
        e1 == [e0 EXCEPT ![jx + 1] = Str(sy.suggested)]
    IN  SubSeq(e1, 1, ix) \o SubSeq(e1, ix + 2, Len(e1))

\* C28: when a call applies just a remove at index i of an array and a
\* change at index j > i of the same array, the array written back is the
\* starting one without its element i and with its element j changed,
\* whichever of the two suggestions comes first in the file.
C28_AddressesStartProfile ==
    (pc = "done" /\ result.k = "returned" /\ Len(SelectedOf(ids)) = 2) =>
        \A x, y \in 1..2 :
            RemoveBefore(x, y) =>
                ValueAt(profileFile.v, Prefix(ParsePath(SelectedOf(ids)[x].section))).e
                    = ChangedAtStartIndices(x, y)

(***************************************************************************)
(* Properties of a session of the interactive review (SpecReview).         *)
(***************************************************************************)
\* the operation running, or the last one run, is a session that found
\* suggestions
InSession == sessions > 0 /\ ids = Undef /\ data # Undef

RECURSIVE Persisted(_, _)
\* the profile file after the steps, each applied to the profile the file
\* holds and written back
Persisted(applied, file) ==
    IF applied = <<>> THEN file
    ELSE Persisted(Tail(applied),
            JsonFile(Stringify(applySuggestion(Head(applied).s,
                                               loadProfile(file)).profile),
                     "pretty"))

\* the entries the session added to the changelog
Added ==
    SubSeq(Lines(changelog),
           (IF existsSync(start.changelog) THEN Len(start.changelog.lines) ELSE 1) + 1,
           Len(Lines(changelog)))

\* C29: in a session the backup is copied at most once, before every write
\* of the profile, and then holds the profile file of the start of the
\* session; at every prompt and at the end the profile file is the starting
\* one with the accepted steps applied in order, the changelog holds their
\* entries in order, and nothing is applied or logged for a suggestion at or
\* behind the one at which the session stopped.
C29_SessionBackupAndSteps ==
    InSession =>
        /\ Count(fsLog, "copyBackup") <= 1
        /\ \A j \in 1..Len(fsLog) :
              fsLog[j] \in {"writeTmp", "rename"} =>
                 \E b \in 1..(j - 1) : fsLog[b] = "copyBackup"
        /\ backupFile = IF backupCreated THEN start.profileFile ELSE start.backupFile
        /\ profileFile = Persisted(steps, start.profileFile)
        /\ changesApplied = Len(steps)
        /\ LET Accepted(l) == l.action # "skipped"
           IN  SelectSeq(Added, Accepted)
                  = [j \in 1..Len(steps) |-> Entry(steps[j].s, steps[j].action)]
        /\ Len(Added) <= i /\ Len(actions) <= i
        /\ \A j \in 1..Len(steps) :
              /\ steps[j].at < i
              /\ j > 1 => steps[j - 1].at < steps[j].at
              /\ steps[j].action = "approved" => steps[j].s = data.suggestions[steps[j].at + 1]

\* a session that was quit before its last suggestion after an approved and
\* an edited step, over an older backup
C29_Witness ==
    /\ InSession /\ pc = "done" /\ result = Void
    /\ i < Len(data.suggestions)
    /\ Len(steps) = 2
    /\ steps[1].action = "approved" /\ steps[2].action = "edited"
    /\ start.backupFile # Absent
    /\ backupFile = start.profileFile
    /\ profileFile.v # start.profileFile.v

(***************************************************************************)
(* What search stores in the cache (SpecCache).                            *)
(***************************************************************************)
\* C30: a search that was not served from the cache has stored the list it
\* returned under its query and serialized options, an empty list as well;
\* a later search with the same query and options, started less than the
\* TTL after it ended, is served that list from the cache and invokes no
\* adapter.
C30_MissStoresReturnedList ==
    /\ (searchPc = "done" /\ history # <<>> /\ ~history[Len(history)].hit) =>
          /\ returned.k = "returned"
          /\ \E e \in cache :
                /\ e.query = searchArgs.query
                /\ e.params = Serialize(searchArgs.opts)
                /\ e.data = returned.list
                /\ e.at = history[Len(history)].at
    /\ \A j, k \in 1..Len(history) :
          (j < k /\ SameSearch(history[j], history[k]) /\ ~history[j].hit
                 /\ history[k].startedAt - history[j].at < CACHE_TTL_MS)
          => /\ history[k].hit
             /\ history[k].invoked = <<>>
             /\ history[k].list = history[j].list

\* a search for which no adapter was selected and one whose only source
\* failed, each repeated later within the TTL and served the empty list
C30_Witness ==
    /\ Len(history) >= 2 /\ searchPc = "done"
    /\ SameSearch(history[1], history[2])
    /\ ~history[1].hit /\ history[1].list = <<>>
    /\ history[2].hit /\ history[2].list = <<>>
    /\ history[2].startedAt > history[1].at
    /\ returned = ListReturned(<<>>)

====
